---------------------------- MODULE Spec2Model ----------------------------
(***************************************************************************)
(* A model of the multi-agent orchestrator of ScholarOS                    *)
(* (services/ai/app/agents): the workflow engine of AgentOrchestrator      *)
(* (topological ordering, the step loop, retries, timeouts, fallback,      *)
(* template resolution), its chat path and the registry they consult.      *)
(***************************************************************************)
EXTENDS Integers, Sequences, FiniteSets, TLC

(***************************************************************************)
(* Bounds of the model.                                                    *)
(***************************************************************************)
\* longest depends_on list of a step
MaxDeps == 2
\* largest retries value of a step
MaxRetries == 2
\* the longest keyword list of a provider registered for routing has
\* MaxPad + 1 keywords
MaxPad == 4
\* initialize_agents is called at most MaxCalls times
MaxCalls == 3
\* the path of a template steps.ID.output.PATH has at most MaxPath segments
MaxPath == 3
\* the task status query is made at most MaxQueries times
MaxQueries == 2
\* send_message is called at most MaxMessages times
MaxMessages == 3
\* a group of an A/B test has at most MaxSamples samples
MaxSamples == 11

\* the step ids workflows are built from, and an id that names no step
StepIds == {"a", "b", "c"}
MissingId == "z"

(***************************************************************************)
(* types.py: the enumerations and the absent value.                        *)
(***************************************************************************)
None == "None"

AgentType ==
  {"task", "project", "grant", "research", "calendar", "writing",
   "personnel", "planner", "orchestrator"}

\* the order in which initialize_agents registers the providers
InitialAgents ==
  <<"task", "project", "grant", "research", "calendar", "writing",
    "personnel", "planner">>

SeqToSet(s) == {s[i] : i \in 1..Len(s)}

\* all sequences over S of length at most n
RECURSIVE SeqsUpTo(_, _)
SeqsUpTo(S, n) ==
  IF n = 0 THEN {<<>>}
  ELSE LET shorter == SeqsUpTo(S, n - 1)
       IN  shorter \cup {Append(s, x) : s \in {t \in shorter : Len(t) = n - 1}, x \in S}

(***************************************************************************)
(* WorkflowStep (types.py): the fields the engine reads.  condition is     *)
(* None or a record [type, expression]; input is a template reference,     *)
(* split at the dots, or <<>> for an input without template.               *)
(***************************************************************************)
Step(id, agent, deps, cond, retries, on_error, fallback, input) ==
  [id |-> id, agent |-> agent, depends_on |-> deps, condition |-> cond,
   retries |-> retries, on_error |-> on_error, fallback_agent |-> fallback,
   input |-> input]

NoCondition == [type |-> None, expression |-> <<>>]

\* a step with the defaults of WorkflowStep
PlainStep(id, deps) == Step(id, "task", deps, NoCondition, 0, "fail", None, <<>>)

(***************************************************************************)
(* AgentOrchestrator._topological_sort                                     *)
(***************************************************************************)
CircularError == "Circular dependency detected in workflow steps"

\* the keys of {s.id: ... for s in steps}: first occurrences, in order
DictKeys(steps) ==
  LET first(i) == \A j \in 1..(i - 1) : steps[j].id # steps[i].id
      RECURSIVE keys(_)
      keys(i) == IF i > Len(steps) THEN <<>>
                 ELSE IF first(i) THEN <<steps[i].id>> \o keys(i + 1)
                 ELSE keys(i + 1)
  IN  keys(1)

\* the value of {s.id: s.depends_on for s in steps}[id]: the last one wins
DictDeps(steps, id) ==
  LET last == CHOOSE i \in 1..Len(steps) :
                /\ steps[i].id = id
                /\ \A j \in (i + 1)..Len(steps) : steps[j].id # id
  IN  steps[last].depends_on

\* the while loop: pop the head, append it, decrement the steps that list it
RECURSIVE KahnLoop(_, _, _, _, _)
KahnLoop(keys, graph, in_degree, queue, result) ==
  IF queue = <<>> THEN result
  ELSE LET current == Head(queue)
           hit(k) == current \in SeqToSet(graph[k])
           degree == [k \in DOMAIN in_degree |->
                        IF hit(k) THEN in_degree[k] - 1 ELSE in_degree[k]]
           ready(k) == hit(k) /\ degree[k] = 0
       IN  KahnLoop(keys, graph, degree,
                    Tail(queue) \o SelectSeq(keys, ready),
                    Append(result, current))

KahnOrder(steps) ==
  LET keys == DictKeys(steps)
      ids == SeqToSet(keys)
      graph == [k \in ids |-> DictDeps(steps, k)]
      in_degree == [k \in ids |-> Len(graph[k])]
      zero(k) == in_degree[k] = 0
  IN  KahnLoop(keys, graph, in_degree, SelectSeq(keys, zero), <<>>)

\* the sort without the length test at its end
TopologicalSortUnchecked(steps) ==
  [ok |-> TRUE, order |-> KahnOrder(steps), error |-> None]

\* the step ids as listed, unsorted
TopologicalSortAsListed(steps) ==
  [ok |-> TRUE, order |-> DictKeys(steps), error |-> None]

\* the sort with its result measured against the number of distinct ids
TopologicalSortByIds(steps) ==
  LET result == KahnOrder(steps)
  IN  IF Len(result) # Cardinality({steps[i].id : i \in 1..Len(steps)})
      THEN [ok |-> FALSE, order |-> <<>>, error |-> CircularError]
      ELSE [ok |-> TRUE, order |-> result, error |-> None]

TopologicalSort(steps) ==
  LET result == KahnOrder(steps)
  IN  IF Len(result) # Len(steps)
      THEN [ok |-> FALSE, order |-> <<>>, error |-> CircularError]
      ELSE [ok |-> TRUE, order |-> result, error |-> None]


(***************************************************************************)
(* Values that flow through a workflow.  An output map is a function from  *)
(* key paths to leaf strings: {x: "42"} is (<<"x">> :> "42") and           *)
(* {n: {k: "v"}} is (<<"n", "k">> :> "v").                                 *)
(***************************************************************************)
EmptyMap == [p \in {} |-> ""]
OutX == (<<"x">> :> "42")

\* the outputs a provider returns with a completed result
Outputs == {OutX, EmptyMap}

\* what one awaited provider call can do: return an AgentResult, run into
\* the timeout of asyncio.wait_for, or raise
ResultOutcome(status, output, error) ==
  [kind |-> "result", status |-> status, output |-> output, error |-> error]
TimeoutOutcome ==
  [kind |-> "timeout", status |-> None, output |-> EmptyMap, error |-> None]
RaiseOutcome ==
  [kind |-> "raise", status |-> None, output |-> EmptyMap, error |-> "provider raised"]
NoOutcome ==
  [kind |-> None, status |-> None, output |-> EmptyMap, error |-> None]

Outcomes ==
  {ResultOutcome("completed", o, None) : o \in Outputs}
    \cup {ResultOutcome("failed", EmptyMap, err) : err \in {"boom", None}}
    \cup {TimeoutOutcome, RaiseOutcome}

(***************************************************************************)
(* WorkflowStepResult and the step_results dict of a WorkflowExecution.    *)
(* The dict keeps insertion order: a sequence of [key, result] entries.    *)
(***************************************************************************)
StepResult(step_id, status, output, error, agent) ==
  [step_id |-> step_id, status |-> status, output |-> output,
   error |-> error, agent_type |-> agent]

HasResult(results, key) == \E i \in 1..Len(results) : results[i].key = key

ResultOf(results, key) ==
  results[CHOOSE i \in 1..Len(results) : results[i].key = key].result

\* step_results[key] = result: replaces in place, or appends a new key
PutResult(results, key, result) ==
  IF HasResult(results, key)
  THEN [i \in 1..Len(results) |->
          IF results[i].key = key THEN [key |-> key, result |-> result]
          ELSE results[i]]
  ELSE Append(results, [key |-> key, result |-> result])

(***************************************************************************)
(* AgentRegistry.get on the registry, a sequence of provider types in      *)
(* registration order.                                                     *)
(***************************************************************************)
Registered(reg, agent_type) == agent_type \in SeqToSet(reg)

\* a dependency check that asks for a recorded result but not for its status
DependenciesPresent(step, execution) ==
  \A i \in 1..Len(step.depends_on) :
    HasResult(execution.step_results, step.depends_on[i])

\* a dependency check that lets every step through
DependenciesIgnored(step, execution) == TRUE

\* a dependency check that a dependency without recorded result passes
DependenciesNotFailed(step, execution) ==
  \A i \in 1..Len(step.depends_on) :
    HasResult(execution.step_results, step.depends_on[i]) =>
      ResultOf(execution.step_results, step.depends_on[i]).status
        \in {"completed", "skipped"}

(***************************************************************************)
(* AgentOrchestrator._dependencies_satisfied                               *)
(***************************************************************************)
DependenciesSatisfied(step, execution) ==
  \A i \in 1..Len(step.depends_on) :
    /\ HasResult(execution.step_results, step.depends_on[i])
    /\ ResultOf(execution.step_results, step.depends_on[i]).status
         \in {"completed", "skipped"}

(***************************************************************************)
(* AgentOrchestrator._evaluate_condition.  An expression is held split at  *)
(* its dots; <<>> is an absent or empty expression.                        *)
(***************************************************************************)
EvaluateCondition(condition, execution) ==
  IF condition.type = "always" THEN TRUE
  ELSE IF condition.expression # <<>>
  THEN IF Len(condition.expression) >= 2 /\ condition.expression[1] = "steps"
       THEN LET step_id == condition.expression[2]
            IN  IF HasResult(execution.step_results, step_id)
                THEN LET result == ResultOf(execution.step_results, step_id)
                     IN  IF condition.type = "if"
                         THEN result.status = "completed"
                         ELSE result.status # "completed"
                ELSE TRUE
       ELSE TRUE
  ELSE TRUE


(***************************************************************************)
(* AgentOrchestrator._resolve_references, for one string leaf that is one  *)
(* template.  ref is the template body split at its dots; <<>> is a leaf   *)
(* without template, which re.sub leaves as it is.                         *)
(***************************************************************************)
Literal == "literal"
\* str() of a non-empty dict
DictText == "{...}"

IsPrefix(q, p) == Len(q) <= Len(p) /\ SubSeq(p, 1, Len(q)) = q

\* the value at path q of an output map is a dict
IsDict(output, q) == \E p \in DOMAIN output : Len(p) > Len(q) /\ IsPrefix(q, p)

\* for part in parts[3:]: current = current.get(part) while current is a dict
RECURSIVE Navigate(_, _, _)
Navigate(output, q, parts) ==
  IF parts = <<>> THEN q
  ELSE IF IsDict(output, q)
  THEN Navigate(output, Append(q, Head(parts)), Tail(parts))
  ELSE q

\* a leaf of an output map is a string, or the integer 0
ZeroInt == "0 (int)"
Falsy == {"", ZeroInt}
\* str(value) of a leaf
Text(value) == IF value = ZeroInt THEN "0" ELSE value

\* str(current) if current else ""
Stringify(output, q) ==
  IF q \in DOMAIN output
  THEN IF output[q] \in Falsy THEN "" ELSE Text(output[q])
  ELSE IF IsDict(output, q) THEN DictText
  ELSE ""

\* no template resolved yet
NoResolveIn == [output |-> EmptyMap, path |-> <<>>]
NotResolved == [called |-> FALSE, text |-> None]

\* the steps. branch without its guards: str() of what is found, None included
ResolveStepsUnguarded(ref, execution) ==
  LET step_id == ref[2]
  IN  IF HasResult(execution.step_results, step_id)
         /\ ResultOf(execution.step_results, step_id).output # EmptyMap
      THEN LET result == ResultOf(execution.step_results, step_id)
           IN  Stringify(result.output,
                         Navigate(result.output, <<>>, SubSeq(ref, 4, Len(ref))))
      ELSE None

ResolveSteps(ref, execution) ==
  LET step_id == ref[2]
  IN  IF HasResult(execution.step_results, step_id)
      THEN LET result == ResultOf(execution.step_results, step_id)
           IN  IF result.output # EmptyMap
               THEN Stringify(result.output,
                              Navigate(result.output, <<>>, SubSeq(ref, 4, Len(ref))))
               ELSE ""
      ELSE ""

\* ref[5:] of a template body prev.KEY: what follows the first dot
RECURSIVE JoinDots(_)
JoinDots(parts) ==
  IF Len(parts) = 1 THEN parts[1]
  ELSE parts[1] \o "." \o JoinDots(Tail(parts))

\* str(result.output.get(key, ""))
GetKey(output, key) ==
  IF <<key>> \in DOMAIN output THEN Text(output[<<key>>])
  ELSE IF IsDict(output, <<key>>) THEN DictText
  ELSE ""

\* for step_id in reversed(list(execution.step_results.keys()))
RECURSIVE ScanPrev(_, _, _)
ScanPrev(step_results, i, key) ==
  IF i = 0 THEN ""
  ELSE IF /\ step_results[i].result.status = "completed"
          /\ step_results[i].result.output # EmptyMap
  THEN GetKey(step_results[i].result.output, key)
  ELSE ScanPrev(step_results, i - 1, key)

\* the prev. branch
ResolvePrev(ref, execution) ==
  ScanPrev(execution.step_results, Len(execution.step_results),
           JoinDots(Tail(ref)))

NoPrevIn == [step_results |-> <<>>, key |-> None]

ResolveReferences(ref, execution, workflow_input) ==
  IF ref = <<>> THEN Literal
  ELSE IF Len(ref) >= 2 /\ ref[1] = "steps" THEN ResolveSteps(ref, execution)
  ELSE IF Len(ref) >= 2 /\ ref[1] = "prev" THEN ResolvePrev(ref, execution)
  ELSE Literal

(***************************************************************************)
(* AgentOrchestrator._execute_workflow_step, cut at its one suspension     *)
(* point, the awaited provider call.  ExecuteStart runs to the first call; *)
(* ExecuteResume takes what the call did and runs to the next call or to   *)
(* the return.  Both yield [returned, result, frame].                      *)
(***************************************************************************)
TimeoutError == "Step timed out"
DefaultError == "Agent execution failed"

NoStep == Step(None, None, <<>>, NoCondition, 0, None, None, <<>>)
NoResult == StepResult(None, None, EmptyMap, None, None)
NoFrame ==
  [step |-> NoStep, retries |-> 0, last_error |-> None, resolved |-> None,
   fallback |-> FALSE]

Returned(result) == [returned |-> TRUE, result |-> result, frame |-> NoFrame]
Pending(frame) == [returned |-> FALSE, result |-> NoResult, frame |-> frame]

FailedResult(step, error) == StepResult(step.id, "failed", EmptyMap, error, step.agent)

ExecuteStart(step, execution, workflow_input, reg, fallback) ==
  IF ~Registered(reg, step.agent)
  THEN Returned(FailedResult(step, "Unknown agent: " \o step.agent))
  ELSE IF step.retries >= 0
  THEN Pending([step |-> step, retries |-> step.retries, last_error |-> None,
                resolved |-> ResolveReferences(step.input, execution, workflow_input),
                fallback |-> fallback])
  ELSE Returned(FailedResult(step, None))

\* a retry loop that stops one attempt early (while retries > 0 after the first)
AttemptFailedEarly(frame, error) ==
  IF frame.retries - 1 > 0
  THEN Pending([frame EXCEPT !.retries = @ - 1, !.last_error = error])
  ELSE Returned(FailedResult(frame.step, error))

\* a retry loop that makes one attempt more (while retries >= -1)
AttemptFailedOnceMore(frame, error) ==
  IF frame.retries - 1 >= 0 - 1
  THEN Pending([frame EXCEPT !.retries = @ - 1, !.last_error = error])
  ELSE Returned(FailedResult(frame.step, error))

\* last_error is set, retries -= 1, and the while condition is tested again
AttemptFailed(frame, error) ==
  IF frame.retries - 1 >= 0
  THEN Pending([frame EXCEPT !.retries = @ - 1, !.last_error = error])
  ELSE Returned(FailedResult(frame.step, error))

\* a retry loop that does not return at a completed result while retries remain
ExecuteResumeUntilExhausted(frame, outcome) ==
  IF outcome.kind = "result"
  THEN IF outcome.status = "completed"
       THEN IF frame.retries - 1 >= 0
            THEN Pending([frame EXCEPT !.retries = @ - 1])
            ELSE Returned(StepResult(frame.step.id, "completed", outcome.output,
                                     None, frame.step.agent))
       ELSE AttemptFailed(frame,
                          IF outcome.error # None THEN outcome.error ELSE DefaultError)
  ELSE IF outcome.kind = "timeout"
  THEN AttemptFailed(frame, TimeoutError)
  ELSE Returned(FailedResult(frame.step, outcome.error))

\* a step execution that a timeout ends whatever retries remain
ExecuteResumeTimeoutEnds(frame, outcome) ==
  IF outcome.kind = "result"
  THEN IF outcome.status = "completed"
       THEN Returned(StepResult(frame.step.id, "completed", outcome.output, None,
                                frame.step.agent))
       ELSE AttemptFailed(frame,
                          IF outcome.error # None THEN outcome.error ELSE DefaultError)
  ELSE IF outcome.kind = "timeout"
  THEN Returned(FailedResult(frame.step, TimeoutError))
  ELSE Returned(FailedResult(frame.step, outcome.error))

\* a step execution that takes an exception of the provider as a failed
\* attempt
ExecuteResumeRaiseRetries(frame, outcome) ==
  IF outcome.kind = "result"
  THEN IF outcome.status = "completed"
       THEN Returned(StepResult(frame.step.id, "completed", outcome.output, None,
                                frame.step.agent))
       ELSE AttemptFailed(frame,
                          IF outcome.error # None THEN outcome.error ELSE DefaultError)
  ELSE IF outcome.kind = "timeout"
  THEN AttemptFailed(frame, TimeoutError)
  ELSE AttemptFailed(frame, outcome.error)

ExecuteResume(frame, outcome) ==
  IF outcome.kind = "result"
  THEN IF outcome.status = "completed"
       THEN Returned(StepResult(frame.step.id, "completed", outcome.output, None,
                                frame.step.agent))
       ELSE AttemptFailed(frame,
                          IF outcome.error # None THEN outcome.error ELSE DefaultError)
  ELSE IF outcome.kind = "timeout"
  THEN AttemptFailed(frame, TimeoutError)
  ELSE Returned(FailedResult(frame.step, outcome.error))


(***************************************************************************)
(* Routing.  A chat message is represented by the set of keyword phrases   *)
(* that occur in its lower-cased text, which is all that can_handle and    *)
(* should_handoff read of it.                                              *)
(***************************************************************************)
\* _get_routing_keywords of each provider
RoutingKeywords(agent_type) ==
  CASE agent_type = "task" ->
         <<"task", "todo", "action", "item", "deadline", "prioritize", "priority",
           "urgent", "important", "extract", "meeting notes", "email", "schedule",
           "when should", "break down", "subtask", "organize", "what should i do",
           "work on", "complete", "finish">>
    [] agent_type = "project" ->
         <<"project", "manuscript", "paper", "research", "milestone", "progress",
           "status", "summary", "health", "risk", "deadline", "stage",
           "publication", "submission", "revision", "track", "update",
           "next steps">>
    [] agent_type = "grant" ->
         <<"grant", "funding", "proposal", "nih", "nsf", "r01", "r21",
           "specific aims", "budget", "eligibility", "deadline", "opportunity",
           "application", "submission", "award", "fellowship", "career", "k99",
           "f31">>
    [] agent_type = "research" ->
         <<"literature", "paper", "citation", "research", "methodology", "study",
           "findings", "abstract", "review", "related work">>
    [] agent_type = "calendar" ->
         <<"calendar", "schedule", "meeting", "time", "availability", "block",
           "appointment", "busy", "free", "when">>
    [] agent_type = "writing" ->
         <<"write", "draft", "edit", "abstract", "outline", "paragraph", "section",
           "improve", "rewrite", "grammar", "introduction", "methods", "results",
           "discussion", "conclusion">>
    [] agent_type = "personnel" ->
         <<"student", "mentee", "lab", "team", "personnel", "phd", "postdoc",
           "meeting", "progress", "mentoring">>
    [] agent_type = "planner" ->
         <<"plan", "goal", "strategy", "career", "long-term", "week", "month",
           "quarter", "year", "priorities", "help", "what should", "how do i",
           "advice">>
    [] OTHER -> <<>>

\* a confidence is the fraction num / den
Confidence(num, den) == [num |-> num, den |-> den]
ZeroConfidence == Confidence(0, 1)
Greater(x, y) == x.num * y.den > y.num * x.den

\* a provider: its type and the list its _get_routing_keywords returns
Agent(agent_type, keywords) == [agent_type |-> agent_type, keywords |-> keywords]
NoAgent == Agent(None, <<>>)

\* the provider initialize_agents registers for a type
BuiltIn(agent_type) == Agent(agent_type, RoutingKeywords(agent_type))

\* BaseAgent.can_handle: matches / max(len(keywords), 1), accepted above 0.2
CanHandle(agent, message) ==
  LET keywords == agent.keywords
      matches == Cardinality({i \in 1..Len(keywords) : keywords[i] \in message})
      confidence == Confidence(matches, IF Len(keywords) > 1 THEN Len(keywords) ELSE 1)
  IN  [can |-> Greater(confidence, Confidence(1, 5)), confidence |-> confidence]

\* AgentRegistry.route_request: the first provider, in registration order,
\* of the highest accepted confidence
\* reg holds the keys of _agents in dict order, ags the provider of each
RECURSIVE RouteLoop(_, _, _, _, _, _)
RouteLoop(reg, ags, i, message, exclude, best) ==
  IF i > Len(reg) THEN best
  ELSE IF reg[i] \in exclude
  THEN RouteLoop(reg, ags, i + 1, message, exclude, best)
  ELSE LET c == CanHandle(ags[reg[i]], message)
       IN  RouteLoop(reg, ags, i + 1, message, exclude,
                     IF c.can /\ Greater(c.confidence, best.confidence)
                     THEN [agent |-> reg[i], confidence |-> c.confidence]
                     ELSE best)

\* route_request going through the providers from the most recently added key
RouteRequestLastFirst(reg, ags, message, exclude) ==
  RouteLoop([i \in 1..Len(reg) |-> reg[Len(reg) + 1 - i]], ags, 1, message, exclude,
            [agent |-> None, confidence |-> ZeroConfidence])

\* route_request without its exclude test
RouteRequestAll(reg, ags, message, exclude) ==
  RouteLoop(reg, ags, 1, message, {},
            [agent |-> None, confidence |-> ZeroConfidence])

RouteRequest(reg, ags, message, exclude) ==
  RouteLoop(reg, ags, 1, message, exclude,
            [agent |-> None, confidence |-> ZeroConfidence])

\* any(kw in request_lower for kw in keywords)
AnyIn(keywords, message) == keywords \cap message # {}

\* should_handoff of each provider: the target provider type, or None
ShouldHandoff(agent_type, message) ==
  CASE agent_type = "planner" ->
         IF AnyIn({"task", "todo", "action item", "extract from"}, message)
         THEN "task"
         ELSE IF AnyIn({"project", "manuscript", "paper status"}, message)
         THEN "project"
         ELSE IF AnyIn({"grant", "funding", "proposal", "nih", "nsf"}, message)
         THEN "grant"
         ELSE IF AnyIn({"literature", "paper", "citation"}, message)
         THEN "research"
         ELSE IF AnyIn({"calendar", "schedule", "meeting", "availability"}, message)
         THEN "calendar"
         ELSE IF AnyIn({"write", "draft", "edit", "abstract"}, message)
         THEN "writing"
         ELSE IF AnyIn({"student", "mentee", "lab member", "postdoc"}, message)
         THEN "personnel"
         ELSE None
    [] agent_type = "grant" ->
         IF AnyIn({"write full", "complete draft", "significance section",
                   "innovation"}, message)
         THEN "writing"
         ELSE IF AnyIn({"find papers", "literature", "preliminary data",
                        "citations"}, message)
         THEN "research"
         ELSE None
    [] agent_type = "project" ->
         IF AnyIn({"grant proposal", "funding", "nih", "nsf", "budget",
                   "specific aims"}, message)
         THEN "grant"
         ELSE IF AnyIn({"write", "draft", "abstract", "introduction", "methods"},
                       message)
         THEN "writing"
         ELSE None
    [] OTHER -> None

\* AgentRegistry.unregister
UnregisterFrom(reg, agent_type) == SelectSeq(reg, LAMBDA t : t # agent_type)

\* AgentRegistry.register: self._agents[agent.agent_type] = agent keeps the
\* place of a key the dict already has
RegisterIn(reg, agent_type) ==
  IF Registered(reg, agent_type) THEN reg ELSE Append(reg, agent_type)

\* for agent in agents: self.register(agent)
RECURSIVE RegisterAll(_, _)
RegisterAll(reg, types) ==
  IF types = <<>> THEN reg
  ELSE RegisterAll(RegisterIn(reg, Head(types)), Tail(types))

\* AgentRegistry.initialize_agents on the registry state st: nothing once
\* _initialized is set.  The coroutine awaits nothing, so two calls of it
\* never interleave.
InitializeAgentsAlways(st) ==
  [registry |-> RegisterAll(st.registry, InitialAgents),
   agents |-> [t \in DOMAIN st.agents |->
                 IF Registered(InitialAgents, t) THEN BuiltIn(t) ELSE st.agents[t]],
   latest |-> SelectSeq(st.latest, LAMBDA t : ~Registered(InitialAgents, t))
                \o InitialAgents,
   initialized |-> TRUE]

InitializeAgentsIn(st) ==
  IF st.initialized THEN st
  ELSE [registry |-> RegisterAll(st.registry, InitialAgents),
        agents |-> [t \in DOMAIN st.agents |->
                      IF Registered(InitialAgents, t) THEN BuiltIn(t)
                      ELSE st.agents[t]],
        latest |-> SelectSeq(st.latest, LAMBDA t : ~Registered(InitialAgents, t))
                     \o InitialAgents,
        initialized |-> TRUE]

\* the history of initialize_agents calls
NoInitLog == [calls |-> 0, before |-> {}, since |-> {}]

\* a provider type was unregistered or replaced: recorded once
\* initialize_agents has been called
Touched(log, agent_type) ==
  IF log.calls = 0 THEN log ELSE [log EXCEPT !.since = @ \cup {agent_type}]

(***************************************************************************)
(* AgentOrchestrator.chat, cut at its one suspension point, the awaited    *)
(* provider call.  ChatStart runs to the call or to the exception raised   *)
(* before it; ChatResume builds the response from what the call did.       *)
(***************************************************************************)
\* an AgentHandoff: the target provider type and the reason
Handoff(to_agent, reason) == [to_agent |-> to_agent, reason |-> reason]
NoHandoff == Handoff(None, None)

NoChatResponse ==
  [raised |-> FALSE, error |-> None, agent_type |-> None, content |-> None,
   status |-> None, handoff |-> NoHandoff]
NoChatRequest == [agent_type |-> None, message |-> {}]

ChatRaised(error) == [NoChatResponse EXCEPT !.raised = TRUE, !.error = error]

\* chat resolving every request by routing, an explicit type only when
\* routing finds nothing
ChatResolveRoutingFirst(req, reg, ags) ==
  LET routed == RouteRequest(reg, ags, req.message, {})
  IN  IF routed.agent # None
      THEN [agent |-> routed.agent, error |-> None, routed |-> TRUE,
            defaulted |-> FALSE]
      ELSE IF req.agent_type # None /\ Registered(reg, req.agent_type)
      THEN [agent |-> req.agent_type, error |-> None, routed |-> TRUE,
            defaulted |-> FALSE]
      ELSE IF Registered(reg, "planner")
      THEN [agent |-> "planner", error |-> None, routed |-> TRUE,
            defaulted |-> TRUE]
      ELSE [agent |-> None, error |-> "No agents available to handle request",
            routed |-> TRUE, defaulted |-> TRUE]

\* the provider that will execute: the explicit one, the routed one or the
\* planner; None with the error raised when there is none.  routed and
\* defaulted tell whether route_request was called and whether the planner
\* was looked up.
ChatResolve(req, reg, ags) ==
  IF req.agent_type # None
  THEN IF Registered(reg, req.agent_type)
       THEN [agent |-> req.agent_type, error |-> None, routed |-> FALSE,
             defaulted |-> FALSE]
       ELSE [agent |-> None, error |-> "Unknown agent type: " \o req.agent_type,
             routed |-> FALSE, defaulted |-> FALSE]
  ELSE LET routed == RouteRequest(reg, ags, req.message, {})
       IN  IF routed.agent # None
           THEN [agent |-> routed.agent, error |-> None, routed |-> TRUE,
                 defaulted |-> FALSE]
           ELSE IF Registered(reg, "planner")
           THEN [agent |-> "planner", error |-> None, routed |-> TRUE,
                 defaulted |-> TRUE]
           ELSE [agent |-> None, error |-> "No agents available to handle request",
                 routed |-> TRUE, defaulted |-> TRUE]

\* the handoff check repeated on the provider handed to
ChatHandoffChained(agent, req, reg) ==
  LET handoff == ShouldHandoff(agent, req.message)
      target == IF handoff # None /\ Registered(reg, handoff) THEN handoff ELSE agent
      again == ShouldHandoff(target, req.message)
  IN  IF target = agent THEN [agent |-> agent, asked |-> <<agent>>]
      ELSE [agent |-> IF again # None /\ Registered(reg, again) THEN again ELSE target,
            asked |-> <<agent, target>>]

\* the handoff check before executing: the provider that executes and the
\* providers whose should_handoff was called
ChatHandoff(agent, req, reg) ==
  LET handoff == ShouldHandoff(agent, req.message)
  IN  [agent |-> IF handoff # None /\ Registered(reg, handoff) THEN handoff ELSE agent,
       asked |-> <<agent>>]

\* the history of a chat call: the provider resolved, whether routing and
\* the default were consulted, the providers whose should_handoff and whose
\* execute were called, the handoff of the result execute returned
NoChatLog ==
  [chosen |-> None, routed |-> FALSE, defaulted |-> FALSE, asked |-> <<>>,
   executes |-> <<>>, handoff |-> NoHandoff]

\* chat executing the provider type the request names, with no handoff check
ChatStartExplicitFixed(req, reg, ags) ==
  LET resolved == ChatResolve(req, reg, ags)
      handed == IF req.agent_type # None
                THEN [agent |-> resolved.agent, asked |-> <<>>]
                ELSE ChatHandoff(resolved.agent, req, reg)
  IN  IF resolved.agent = None
      THEN [pc |-> "returned", agent |-> None, response |-> ChatRaised(resolved.error),
            log |-> [NoChatLog EXCEPT !.routed = resolved.routed,
                                      !.defaulted = resolved.defaulted]]
      ELSE [pc |-> "exec", agent |-> handed.agent, response |-> NoChatResponse,
            log |-> [NoChatLog EXCEPT !.chosen = resolved.agent,
                                      !.routed = resolved.routed,
                                      !.defaulted = resolved.defaulted,
                                      !.asked = handed.asked,
                                      !.executes = <<handed.agent>>]]

ChatStart(req, reg, ags) ==
  LET resolved == ChatResolve(req, reg, ags)
      handed == ChatHandoff(resolved.agent, req, reg)
  IN  IF resolved.agent = None
      THEN [pc |-> "returned", agent |-> None, response |-> ChatRaised(resolved.error),
            log |-> [NoChatLog EXCEPT !.routed = resolved.routed,
                                      !.defaulted = resolved.defaulted]]
      ELSE [pc |-> "exec", agent |-> handed.agent, response |-> NoChatResponse,
            log |-> [NoChatLog EXCEPT !.chosen = resolved.agent,
                                      !.routed = resolved.routed,
                                      !.defaulted = resolved.defaulted,
                                      !.asked = handed.asked,
                                      !.executes = <<handed.agent>>]]

ResponseText == "response"

\* chat executing the provider a result hands off to
ChatResumeFollowing(agent, outcome) ==
  IF outcome.kind = "result" /\ outcome.handoff # NoHandoff
  THEN [pc |-> "exec", agent |-> outcome.handoff.to_agent, response |-> NoChatResponse]
  ELSE [pc |-> "returned", agent |-> agent,
        response |-> [raised |-> FALSE, error |-> outcome.error, agent_type |-> agent,
                      content |-> ResponseText, status |-> outcome.status,
                      handoff |-> NoHandoff]]

\* the try block around agent.execute and its except clause: chat returns
ChatResume(agent, outcome) ==
  [pc |-> "returned", agent |-> agent,
   response |->
     IF outcome.kind = "result"
     THEN [raised |-> FALSE, error |-> None, agent_type |-> agent,
           content |-> ResponseText, status |-> outcome.status,
           handoff |-> outcome.handoff]
     ELSE [raised |-> FALSE, error |-> outcome.error, agent_type |-> agent,
           content |-> "I encountered an error processing your request: "
                         \o outcome.error,
           status |-> None, handoff |-> NoHandoff]]


(***************************************************************************)
(* The state.                                                              *)
(*   agents       AgentRegistry._agents: the provider of each type         *)
(*   initialized  AgentRegistry._initialized                               *)
(*   latest       history: the registered types by their last register     *)
(*                call, oldest first                                       *)
(*   init_log     history: the initialize_agents calls made, the types     *)
(*                unregistered or replaced before the last of them since   *)
(*                the call before it, and those since the last call        *)
(*   resolve_in, resolve_out   a template steps.a.output.PATH resolved     *)
(*   task_pc, task_request, task_response   the calls of execute_task      *)
(*   task_log       per call of execute_task: the provider calls awaited   *)
(*                  by the caller, and the detached unit (history)         *)
(*   uuids          the number of uuid4 values drawn for task ids          *)
(*   status_seen    the replies of the task status query (history)         *)
(*   message_queue  AgentOrchestrator._message_queue                       *)
(*   processed      the messages process_messages has dequeued (history)   *)
(*   ab_in, ab_out  a request to analyze_ab_test and its reply             *)
(*   prev_in, prev_out   a template prev.KEY resolved on its own           *)
(*                against a recorded output, and what it resolved to       *)
(*   route_in, route_out   a call of route_request and what it returned    *)
(*   registry     AgentRegistry._agents: the registered provider types, in *)
(*                registration order                                       *)
(*   active       the keys of AgentOrchestrator._active_workflows          *)
(*   execution    the WorkflowExecution object of each orchestrate call    *)
(*   request      the OrchestrateRequest of each call                      *)
(*   step_order   the order _topological_sort returned                     *)
(*   position     the index in step_order of the step the loop is at       *)
(*   frame        the locals of the suspended _execute_workflow_step       *)
(*   pc           where each call is: idle (not called), exec (awaiting a  *)
(*                provider call), returned                                 *)
(*   response     what the call returned, or that it raised                *)
(*   calls        history: the provider calls started, in order            *)
(*   received     history: what each provider call of the step execution   *)
(*                in progress did (completed, failed, timeout, raise)      *)
(*   executed     history: each return of _execute_workflow_step, with     *)
(*                what its calls did and the outcome of the last one       *)
(*   sort_in, sort_out   an input of _topological_sort and its result      *)
(*   chat_log     history of the chat call: the provider resolved, whether *)
(*                routing and the default were consulted, the providers    *)
(*                whose should_handoff and whose execute were called       *)
(*   chat_pc, chat_request, chat_agent, chat_response   a chat call: where *)
(*                it is, its request, the provider that executes it, what  *)
(*                it returned or that it raised                            *)
(***************************************************************************)
VARIABLES registry, active, execution, request, step_order, position, frame,
          pc, response, calls, received, executed, sort_in, sort_out,
          chat_pc, chat_request, chat_agent, chat_response, chat_log,
          agents, initialized, latest, init_log, route_in, route_out,
          resolve_in, resolve_out,
          task_pc, task_request, task_response, task_log, uuids, status_seen,
          message_queue, processed, ab_in, ab_out, prev_in, prev_out

chat_vars == <<chat_pc, chat_request, chat_agent, chat_response, chat_log>>
reg_vars == <<registry, agents, initialized, latest, init_log>>
route_vars == <<route_in, route_out>>
sort_vars == <<sort_in, sort_out>>
flow_vars == <<active, execution, request, step_order, position, frame, pc,
               response, calls, received, executed>>
resolve_vars == <<resolve_in, resolve_out>>
task_vars == <<task_pc, task_request, task_response, task_log, uuids, status_seen>>
queue_vars == <<message_queue, processed>>
ab_vars == <<ab_in, ab_out>>
prev_vars == <<prev_in, prev_out>>
more_vars == <<resolve_vars, task_vars, queue_vars, ab_vars, prev_vars>>
vars == <<reg_vars, flow_vars, sort_vars, chat_vars, route_vars, more_vars>>

\* execution ids: uuid4 values, each call gets its own
ExecIds == {"e1", "e2"}

NoExecution ==
  [status |-> None, current_step |-> None, step_results |-> <<>>, error |-> None]
NoResponse ==
  [raised |-> FALSE, status |-> None, results |-> <<>>, error |-> None]
NoRequest ==
  [workflow |-> [steps |-> <<>>, error_handling |-> None], input |-> EmptyMap]
NotSorted == [ok |-> FALSE, order |-> <<>>, error |-> None]

\* AgentOrchestrator.get_workflow_status
GetWorkflowStatus(execution_id) ==
  IF execution_id \in active THEN execution[execution_id] ELSE NoExecution

(***************************************************************************)
(* AgentOrchestrator.orchestrate as a transformer of the state of one      *)
(* call, st = [execution, mapped, step_order, position, frame, pc,         *)
(* response, calls, received, executed], from one suspension point to the  *)
(* next.                                                                   *)
(***************************************************************************)
\* a return that leaves the execution in _active_workflows
FinallyKeeping(st) == [st EXCEPT !.pc = "returned", !.frame = NoFrame]

\* finally: del self._active_workflows[execution_id]
Finally(st) == [st EXCEPT !.mapped = FALSE, !.pc = "returned", !.frame = NoFrame]

\* an except clause that answers with an empty result map
ExceptBranchEmpty(st, error) ==
  Finally([st EXCEPT
             !.execution.status = "failed",
             !.execution.error = error,
             !.response = [raised |-> FALSE, status |-> "failed",
                           results |-> <<>>, error |-> error]])

\* an except clause after which the execution stays in the map
ExceptBranchKept(st, error) ==
  [st EXCEPT !.execution.status = "failed",
             !.execution.error = error,
             !.response = [raised |-> FALSE, status |-> "failed",
                           results |-> st.execution.step_results,
                           error |-> error],
             !.pc = "returned", !.frame = NoFrame]

\* except Exception as e: the failed response with the results so far
ExceptBranch(st, error) ==
  Finally([st EXCEPT
             !.execution.status = "failed",
             !.execution.error = error,
             !.response = [raised |-> FALSE, status |-> "failed",
                           results |-> st.execution.step_results,
                           error |-> error]])

\* an end of the loop that reports completed only when every step of the
\* order has a result that is completed or skipped
MarkCompletedIfAll(st) ==
  LET all == /\ Len(st.execution.step_results) = Len(st.step_order)
             /\ \A i \in 1..Len(st.execution.step_results) :
                  st.execution.step_results[i].result.status
                    \in {"completed", "skipped"}
      status == IF all THEN "completed" ELSE "failed"
  IN  Finally([st EXCEPT
                 !.execution.status = status,
                 !.response = [raised |-> FALSE, status |-> status,
                               results |-> st.execution.step_results,
                               error |-> None]])

\* the end of the loop: mark completed and return
MarkCompleted(st) ==
  Finally([st EXCEPT
             !.execution.status = "completed",
             !.response = [raised |-> FALSE, status |-> "completed",
                           results |-> st.execution.step_results,
                           error |-> None]])

\* next(s for s in workflow.steps if s.id == step_id)
FindStep(steps, step_id) ==
  steps[CHOOSE i \in 1..Len(steps) :
          /\ steps[i].id = step_id
          /\ \A j \in 1..(i - 1) : steps[j].id # step_id]

\* a fallback step that inherits the retries of the step it replaces
FallbackStepRetrying(step) ==
  Step(step.id \o "_fallback", step.fallback_agent, <<>>, NoCondition,
       step.retries, "fail", None, step.input)

\* the WorkflowStep built for the fallback provider: the other fields default
FallbackStep(step) ==
  Step(step.id \o "_fallback", step.fallback_agent, <<>>, NoCondition, 0, "fail",
       None, step.input)

Record(st, step_id, result) ==
  [st EXCEPT !.execution.step_results = PutResult(@, step_id, result)]

\* a loop that starts the provider call a second time without awaiting the
\* first
SuspendTwice(st, step_id, fr) ==
  [st EXCEPT !.pc = "exec", !.frame = fr,
             !.calls = @ \o <<[step |-> step_id, fallback |-> fr.fallback],
                               [step |-> step_id, fallback |-> fr.fallback]>>]

\* the provider call of the pending frame starts
Suspend(st, step_id, fr) ==
  [st EXCEPT !.pc = "exec", !.frame = fr,
             !.calls = Append(@, [step |-> step_id, fallback |-> fr.fallback])]

\* a provider call ended
KindOf(outcome) == IF outcome.kind = "result" THEN outcome.status ELSE outcome.kind
Receive(st, outcome) == [st EXCEPT !.received = Append(@, KindOf(outcome))]

\* _execute_workflow_step returned
Log(st, step_id, fallback, outcome, result) ==
  [st EXCEPT !.executed = Append(@, [step |-> step_id, fallback |-> fallback,
                                      kinds |-> st.received, final |-> outcome,
                                      result |-> result]),
             !.received = <<>>]

\* a test of the mode that sets continue apart from the other three
FailFastUnlessContinue(workflow) == workflow.error_handling # "continue"

\* if workflow.error_handling == "fail_fast"
FailFast(workflow) == workflow.error_handling = "fail_fast"

RECURSIVE StepLoop(_, _, _)
RECURSIVE AfterPrimary(_, _, _, _, _)

\* a fallback result recorded under the id of the synthesized fallback step
AfterFallbackOwnKey(st, step, result, req, reg) ==
  StepLoop([Record(st, step.id \o "_fallback", result) EXCEPT !.position = @ + 1],
           req, reg)

\* execution.step_results[step_id] = fallback_result, and the loop goes on
AfterFallback(st, step, result, req, reg) ==
  StepLoop([Record(st, step.id, result) EXCEPT !.position = @ + 1], req, reg)

\* a failure handling that goes on to the next step whatever on_error is
AfterPrimaryContinuing(st, step, result, req, reg) ==
  StepLoop([Record(st, step.id, result) EXCEPT !.position = @ + 1], req, reg)

\* a failure handling that aborts on every failed step without a fallback
AfterPrimaryStrict(st, step, result, req, reg) ==
  LET st1 == Record(st, step.id, result)
  IN  IF result.status = "failed"
      THEN IF step.on_error = "fallback" /\ step.fallback_agent # None
           THEN LET r == ExecuteStart(FallbackStep(step), st1.execution, req.input,
                                      reg, TRUE)
                IN  IF r.returned
                    THEN AfterFallback(Log(st1, step.id, TRUE, NoOutcome, r.result),
                                       step, r.result, req, reg)
                    ELSE Suspend(st1, step.id, r.frame)
           ELSE ExceptBranch(st1, "Step failed: " \o step.id \o " - " \o result.error)
      ELSE StepLoop([st1 EXCEPT !.position = @ + 1], req, reg)

\* execution.step_results[step_id] = step_result, then the failure handling
AfterPrimary(st, step, result, req, reg) ==
  LET st1 == Record(st, step.id, result)
  IN  IF result.status = "failed"
      THEN IF step.on_error = "fail"
           THEN ExceptBranch(st1, "Step failed: " \o step.id \o " - " \o result.error)
           ELSE IF step.on_error = "fallback" /\ step.fallback_agent # None
           THEN LET r == ExecuteStart(FallbackStep(step), st1.execution, req.input,
                                      reg, TRUE)
                IN  IF r.returned
                    THEN AfterFallback(Log(st1, step.id, TRUE, NoOutcome, r.result),
                                       step, r.result, req, reg)
                    ELSE Suspend(st1, step.id, r.frame)
           ELSE StepLoop([st1 EXCEPT !.position = @ + 1], req, reg)
      ELSE StepLoop([st1 EXCEPT !.position = @ + 1], req, reg)

\* for step_id in step_order: ... up to the next provider call or the return
StepLoop(st, req, reg) ==
  IF st.position > Len(st.step_order) THEN MarkCompleted(st)
  ELSE LET step_id == st.step_order[st.position]
           step == FindStep(req.workflow.steps, step_id)
           st1 == [st EXCEPT !.execution.current_step = step_id]
       IN  IF ~DependenciesSatisfied(step, st1.execution)
           THEN IF FailFast(req.workflow)
                THEN ExceptBranch(st1, "Dependencies not satisfied for step: " \o step_id)
                ELSE StepLoop([st1 EXCEPT !.position = @ + 1], req, reg)
           ELSE IF step.condition # NoCondition
                   /\ ~EvaluateCondition(step.condition, st1.execution)
           THEN StepLoop([Record(st1, step_id,
                                 StepResult(step_id, "skipped", EmptyMap, None, step.agent))
                            EXCEPT !.position = @ + 1], req, reg)
           ELSE LET r == ExecuteStart(step, st1.execution, req.input, reg, FALSE)
                IN  IF r.returned
                    THEN AfterPrimary(Log(st1, step_id, FALSE, NoOutcome, r.result),
                                      step, r.result, req, reg)
                    ELSE Suspend(st1, step_id, r.frame)

\* orchestrate from its call to its first suspension point
OrchestrateStart(req, reg) ==
  LET st0 == [execution |-> [NoExecution EXCEPT !.status = "running"],
              mapped |-> TRUE, step_order |-> <<>>, position |-> 1,
              frame |-> NoFrame, pc |-> "idle", response |-> NoResponse,
              calls |-> <<>>, received |-> <<>>, executed |-> <<>>]
      sorted == TopologicalSort(req.workflow.steps)
  IN  IF sorted.ok
      THEN StepLoop([st0 EXCEPT !.step_order = sorted.order], req, reg)
      ELSE ExceptBranch(st0, sorted.error)

\* orchestrate from the end of a provider call to the next suspension point
OrchestrateResume(st0, outcome, req, reg) ==
  LET st == Receive(st0, outcome)
      step_id == st.step_order[st.position]
      step == FindStep(req.workflow.steps, step_id)
      r == ExecuteResume(st.frame, outcome)
  IN  IF r.returned
      THEN IF st.frame.fallback
           THEN AfterFallback(Log(st, step_id, TRUE, outcome, r.result),
                              step, r.result, req, reg)
           ELSE AfterPrimary(Log(st, step_id, FALSE, outcome, r.result),
                             step, r.result, req, reg)
      ELSE Suspend(st, step_id, r.frame)


(***************************************************************************)
(* The workflows the model runs.                                           *)
(***************************************************************************)
DepLists == SeqsUpTo(StepIds, MaxDeps)

Workflow(steps, error_handling) == [steps |-> steps, error_handling |-> error_handling]
Request(workflow) == [workflow |-> workflow, input |-> EmptyMap]

\* every dependency graph over the steps a, b, c, listed in this order
Graphs ==
  {<<>>}
    \cup {<<PlainStep("a", d1)>> : d1 \in DepLists}
    \cup {<<PlainStep("a", d1), PlainStep("b", d2)>> : d1 \in DepLists, d2 \in DepLists}
    \cup {<<PlainStep("a", d1), PlainStep("b", d2), PlainStep("c", d3)>> :
            d1 \in DepLists, d2 \in DepLists, d3 \in DepLists}

\* the graphs Kahn's loop orders in full, with every choice of fail or skip as the
\* error policy of each step, under fail_fast and under continue; the graphs
\* it rejects, as they are
GraphWorkflows ==
  LET accepted == {g \in Graphs : Len(KahnOrder(g)) = Len(g)}
      policies(g) == [1..Len(g) -> {"fail", "skip"}]
      with(g, f) == [i \in 1..Len(g) |-> [g[i] EXCEPT !.on_error = f[i]]]
  IN  UNION {{Workflow(with(g, f), eh) :
                f \in policies(g), eh \in {"fail_fast", "continue"}} :
             g \in accepted}
        \cup {Workflow(g, "fail_fast") : g \in Graphs \ accepted}

\* steps b, a, c in this order: b varies in provider, retries (up to
\* MaxRetries when it is alone, up to 1 before other steps), error policy
\* and fallback provider; a in condition, error policy and in whether it
\* depends on b; c, whose input is the template {{steps.a.output.x}}, in
\* whether it depends on a
ErrorPolicies ==
  {<<"fail", None>>, <<"skip", None>>, <<"skip", "planner">>,
   <<"fallback", None>>, <<"fallback", "planner">>, <<"fallback", "orchestrator">>}

\* "orchestrator" is a provider type that initialize_agents never registers
FirstSteps(max_retries) ==
  {Step("b", "task", <<>>, NoCondition, retries, pol[1], pol[2], <<>>) :
     retries \in 0..max_retries, pol \in ErrorPolicies}
    \cup {Step("b", "orchestrator", <<>>, NoCondition, 0, pol[1], pol[2], <<>>) :
            pol \in ErrorPolicies}

SecondSteps ==
  {Step("a", "task", deps, cond, 0, on_error, None, <<>>) :
     deps \in {<<>>, <<"b">>},
     cond \in {NoCondition,
               [type |-> "if", expression |-> <<"steps", "b">>],
               [type |-> "unless", expression |-> <<"steps", "b">>]},
     on_error \in {"fail", "skip"}}

\* a under the other forms of condition: on step c, which has no recorded
\* result when a is reached (it comes later, or is no step of the workflow),
\* of type always, and on something else than a step
ConditionedSteps ==
  {Step("a", "task", <<>>, cond, 0, "fail", None, <<>>) :
     cond \in {[type |-> "if", expression |-> <<"steps", "c">>],
               [type |-> "unless", expression |-> <<"steps", "c">>],
               [type |-> "always", expression |-> <<"steps", "b">>],
               [type |-> "if", expression |-> <<"input", "flag">>]}}

ThirdSteps ==
  {Step("c", "task", deps, NoCondition, 0, "fail", None,
        <<"steps", "a", "output", "x">>) :
     deps \in {<<>>, <<"a">>}}

PolicyWorkflows ==
  {Workflow(steps, eh) :
     steps \in {<<s1>> : s1 \in FirstSteps(MaxRetries)}
                 \cup {<<s1, s2>> : s1 \in FirstSteps(1),
                                    s2 \in SecondSteps \cup ConditionedSteps}
                 \cup {<<s1, s2, s3>> : s1 \in FirstSteps(1),
                                        s2 \in SecondSteps \cup ConditionedSteps,
                                        s3 \in ThirdSteps},
     eh \in {"fail_fast", "continue"}}

\* workflows the sort does not order: a cycle, a dependency on an id that
\* no step has, a dependency listed twice, two steps with one id; no step
\* with on_error = fail
SkipStep(id, deps) == Step(id, "task", deps, NoCondition, 0, "skip", None, <<>>)

UnsortedWorkflows ==
  {Workflow(steps, eh) :
     steps \in {<<SkipStep("a", <<"b">>), SkipStep("b", <<"a">>)>>,
                <<SkipStep("a", <<MissingId>>), SkipStep("b", <<>>)>>,
                <<SkipStep("a", <<>>), SkipStep("b", <<"a", "a">>)>>,
                <<SkipStep("a", <<>>), SkipStep("a", <<>>)>>,
                <<SkipStep("a", <<"b">>), SkipStep("b", <<>>), SkipStep("a", <<>>)>>},
     eh \in {"fail_fast", "continue"}}

Workflows == GraphWorkflows \cup PolicyWorkflows \cup UnsortedWorkflows

(***************************************************************************)
(* The actions.                                                            *)
(***************************************************************************)
StateOf(e) ==
  [execution |-> execution[e], mapped |-> e \in active,
   step_order |-> step_order[e], position |-> position[e], frame |-> frame[e],
   pc |-> pc[e], response |-> response[e], calls |-> calls[e],
   received |-> received[e], executed |-> executed[e]]

\* a cleanup that empties the map of active executions
ApplyClearing(e, st) ==
  /\ execution' = [execution EXCEPT ![e] = st.execution]
  /\ active' = IF st.mapped THEN active \cup {e} ELSE {}
  /\ step_order' = [step_order EXCEPT ![e] = st.step_order]
  /\ position' = [position EXCEPT ![e] = st.position]
  /\ frame' = [frame EXCEPT ![e] = st.frame]
  /\ pc' = [pc EXCEPT ![e] = st.pc]
  /\ response' = [response EXCEPT ![e] = st.response]
  /\ calls' = [calls EXCEPT ![e] = st.calls]
  /\ received' = [received EXCEPT ![e] = st.received]
  /\ executed' = [executed EXCEPT ![e] = st.executed]

Apply(e, st) ==
  /\ execution' = [execution EXCEPT ![e] = st.execution]
  /\ active' = IF st.mapped THEN active \cup {e} ELSE active \ {e}
  /\ step_order' = [step_order EXCEPT ![e] = st.step_order]
  /\ position' = [position EXCEPT ![e] = st.position]
  /\ frame' = [frame EXCEPT ![e] = st.frame]
  /\ pc' = [pc EXCEPT ![e] = st.pc]
  /\ response' = [response EXCEPT ![e] = st.response]
  /\ calls' = [calls EXCEPT ![e] = st.calls]
  /\ received' = [received EXCEPT ![e] = st.received]
  /\ executed' = [executed EXCEPT ![e] = st.executed]

\* a call of orchestrate(request, context); e is the fresh execution id
Orchestrate(e, workflows) ==
  /\ pc[e] = "idle"
  /\ \E workflow \in workflows :
       /\ request' = [request EXCEPT ![e] = Request(workflow)]
       /\ Apply(e, OrchestrateStart(Request(workflow), registry))
  /\ UNCHANGED <<reg_vars, sort_vars, chat_vars, route_vars, more_vars>>

\* the provider call an execution awaits ends, by a result, the timeout or
\* an exception
ProviderReturns(e) ==
  /\ pc[e] = "exec"
  /\ \E outcome \in Outcomes :
       Apply(e, OrchestrateResume(StateOf(e), outcome, request[e], registry))
  /\ UNCHANGED <<reg_vars, request, sort_vars, chat_vars, route_vars, more_vars>>

(***************************************************************************)
(* AgentOrchestrator.execute_task, cut at its one suspension point, the    *)
(* awaited provider call of the synchronous path.  A task id is the number *)
(* of the uuid4 value drawn for it.                                        *)
(***************************************************************************)
TaskCalls == {"t1", "t2"}

\* the members of the enum AgentStatus
AgentStatus ==
  {"idle", "planning", "executing", "awaiting_feedback", "completed", "failed"}

\* what agent.execute can do: return an AgentResult of any status, or raise
TaskOutcomes ==
  {ResultOutcome("completed", OutX, None)}
    \cup {ResultOutcome(s, EmptyMap, err) : s \in AgentStatus \ {"completed"},
                                            err \in {"boom", None}}
    \cup {RaiseOutcome}

\* result = None of an ExecuteTaskResponse
NoOutput == (<<>> :> None)

TaskResponse(task_id, status, result, error) ==
  [task_id |-> task_id, status |-> status, result |-> result, error |-> error,
   raised |-> FALSE]

NoTaskRequest == [agent_type |-> None, async_execution |-> FALSE]
NoTaskResponse == TaskResponse(0, None, NoOutput, None)
NoTaskLog ==
  [awaited |-> 0, background |-> "none", finished |-> NoOutcome, escaped |-> FALSE]

UnknownAgentType(agent_type) == "Unknown agent type: " \o agent_type

\* execute_task up to its return or to the awaited provider call
ExecuteTaskStart(req, reg, drawn) ==
  IF ~Registered(reg, req.agent_type)
  THEN [pc |-> "returned",
        response |-> TaskResponse(drawn + 1, "failed", NoOutput,
                                  UnknownAgentType(req.agent_type)),
        log |-> NoTaskLog]
  ELSE IF req.async_execution
  THEN [pc |-> "returned",
        response |-> TaskResponse(drawn + 1, "running", NoOutput, None),
        log |-> [NoTaskLog EXCEPT !.background = "scheduled"]]
  ELSE [pc |-> "exec",
        response |-> [NoTaskResponse EXCEPT !.task_id = drawn + 1],
        log |-> [NoTaskLog EXCEPT !.awaited = 1]]

\* execute_task reporting every result status but failed as completed
ExecuteTaskResumeNotFailed(task_id, outcome) ==
  IF outcome.kind = "raise"
  THEN TaskResponse(task_id, "failed", NoOutput, outcome.error)
  ELSE TaskResponse(task_id,
                    IF outcome.status # "failed" THEN "completed" ELSE "failed",
                    outcome.output, outcome.error)

\* execute_task from the return of the awaited provider call
ExecuteTaskResume(task_id, outcome) ==
  IF outcome.kind = "raise"
  THEN TaskResponse(task_id, "failed", NoOutput, outcome.error)
  ELSE TaskResponse(task_id,
                    IF outcome.status = "completed" THEN "completed" ELSE "failed",
                    outcome.output, outcome.error)

\* _execute_task_async: the result is logged and dropped, an exception is
\* caught and logged
ExecuteTaskAsync(log, outcome) ==
  [log EXCEPT !.background = "done", !.finished = outcome, !.escaped = FALSE]

\* a task status query that follows the detached unit
GetTaskStatusTracking(task_id) ==
  [task_id |-> task_id,
   status |-> IF \E t \in TaskCalls : /\ task_response[t].task_id = task_id
                                       /\ task_log[t].background = "done"
              THEN "completed" ELSE "pending",
   progress |-> 0]

\* get_task_status of routers/agents.py
GetTaskStatus(task_id) == [task_id |-> task_id, status |-> "pending", progress |-> 0]

(***************************************************************************)
(* send_message and process_messages.  Neither awaits anything: each runs  *)
(* to its end in one step.  A message carries its recipient and, as the    *)
(* identity of the object, its number in the order of sending.             *)
(***************************************************************************)
Message(recipient, serial) == [recipient |-> recipient, serial |-> serial]

\* a send_message that puts the message at the head of the queue
SendMessageAtHead(queue, reg, message) == <<message>> \o queue

\* send_message: the append, then the branches on the recipient, which only
\* read the registry
SendMessageIn(queue, reg, message) ==
  LET appended == Append(queue, message)
  IN  IF message.recipient = "all" THEN appended
      ELSE IF message.recipient # "orchestrator"
      THEN IF Registered(reg, message.recipient) THEN appended ELSE appended
      ELSE appended

\* a loop that takes the messages from the tail: message_queue.pop()
RECURSIVE ProcessMessagesFromTail(_, _)
ProcessMessagesFromTail(queue, dequeued) ==
  IF queue = <<>> THEN [queue |-> queue, dequeued |-> dequeued]
  ELSE ProcessMessagesFromTail(SubSeq(queue, 1, Len(queue) - 1),
                               Append(dequeued, queue[Len(queue)]))

\* process_messages: while self._message_queue: message = pop(0)
RECURSIVE ProcessMessagesIn(_, _)
ProcessMessagesIn(queue, dequeued) ==
  IF queue = <<>> THEN [queue |-> queue, dequeued |-> dequeued]
  ELSE ProcessMessagesIn(Tail(queue), Append(dequeued, Head(queue)))

\* an empty message queue
InitQueue ==
  /\ message_queue = <<>>
  /\ processed = <<>>

(***************************************************************************)
(* analyze_ab_test of routers/analytics.py, on the sizes of the two groups *)
(* of the request; fault: the computation on the samples raises.  The      *)
(* reply is the status of the response and whether it carries a result.    *)
(***************************************************************************)
MinSamples == 10

HttpException(status) == [called |-> TRUE, status |-> status, result |-> FALSE]
TestResult == [called |-> TRUE, status |-> 200, result |-> TRUE]

\* what the body of the try raises, or returns
AnalyzeBody(control, treatment, fault) ==
  IF control < MinSamples \/ treatment < MinSamples
  THEN [raised |-> "HTTPException", reply |-> HttpException(400)]
  ELSE IF fault
  THEN [raised |-> "Exception", reply |-> HttpException(0)]
  ELSE [raised |-> None, reply |-> TestResult]

\* the handler with the catch-all as its only except clause
AnalyzeAbTestCatchAll(control, treatment, fault) ==
  LET body == AnalyzeBody(control, treatment, fault)
  IN  IF body.raised # None THEN HttpException(500) ELSE body.reply

\* except HTTPException: raise; except Exception: raise HTTPException(500)
AnalyzeAbTest(control, treatment, fault) ==
  LET body == AnalyzeBody(control, treatment, fault)
  IN  IF body.raised = "HTTPException" THEN body.reply
      ELSE IF body.raised = "Exception" THEN HttpException(500)
      ELSE body.reply

\* no request to analyze_ab_test yet
NoTestIn == [control |-> 0, treatment |-> 0, fault |-> FALSE]
NoTestOut == [called |-> FALSE, status |-> 0, result |-> FALSE]
InitTest ==
  /\ ab_in = NoTestIn
  /\ ab_out = NoTestOut

InitTasks ==
  /\ task_pc = [t \in TaskCalls |-> "idle"]
  /\ task_request = [t \in TaskCalls |-> NoTaskRequest]
  /\ task_response = [t \in TaskCalls |-> NoTaskResponse]
  /\ task_log = [t \in TaskCalls |-> NoTaskLog]
  /\ uuids = 0
  /\ status_seen = <<>>

\* no call of route_request yet, and none returned
NoRouteIn == [message |-> {}, exclude |-> {}]
NoRouteOut == [called |-> FALSE, agent |-> None, confidence |-> ZeroConfidence]

InitOrchestrator ==
  /\ registry = InitialAgents
  /\ agents = [t \in AgentType |->
                 IF Registered(InitialAgents, t) THEN BuiltIn(t) ELSE NoAgent]
  /\ initialized = TRUE
  /\ latest = InitialAgents
  /\ init_log = [NoInitLog EXCEPT !.calls = 1]
  /\ route_in = NoRouteIn
  /\ route_out = NoRouteOut
  /\ active = {}
  /\ execution = [e \in ExecIds |-> NoExecution]
  /\ request = [e \in ExecIds |-> NoRequest]
  /\ step_order = [e \in ExecIds |-> <<>>]
  /\ position = [e \in ExecIds |-> 1]
  /\ frame = [e \in ExecIds |-> NoFrame]
  /\ pc = [e \in ExecIds |-> "idle"]
  /\ response = [e \in ExecIds |-> NoResponse]
  /\ calls = [e \in ExecIds |-> <<>>]
  /\ received = [e \in ExecIds |-> <<>>]
  /\ executed = [e \in ExecIds |-> <<>>]
  /\ chat_pc = "idle"
  /\ chat_request = NoChatRequest
  /\ chat_agent = None
  /\ chat_response = NoChatResponse
  /\ chat_log = NoChatLog
  /\ resolve_in = NoResolveIn
  /\ resolve_out = NotResolved
  /\ InitTasks
  /\ InitQueue
  /\ InitTest
  /\ prev_in = NoPrevIn
  /\ prev_out = NotResolved

Init ==
  /\ InitOrchestrator
  /\ sort_in = <<>>
  /\ sort_out = NotSorted

Next ==
  \/ Orchestrate("e1", Workflows)
  \/ ProviderReturns("e1")

Spec == Init /\ [][Next]_vars

\* every provider call that is awaited ends: it returns, raises, or is cut
\* off by the timeout of asyncio.wait_for
LiveWorkflows ==
  {Workflow(steps, eh) :
     steps \in {<<s1>> : s1 \in FirstSteps(MaxRetries)}
                 \cup {<<s1, s2>> : s1 \in FirstSteps(1), s2 \in SecondSteps},
     eh \in {"fail_fast", "continue"}}

NextLive ==
  \/ Orchestrate("e1", LiveWorkflows)
  \/ ProviderReturns("e1")

\* weak fairness of ProviderReturns("e1"), WF_vars(ProviderReturns("e1")), with
\* its enabling condition written out: the action is enabled exactly when the
\* run is suspended in a provider call (pc = "exec"), for Outcomes is not
\* empty and every outcome moves the run on
ProviderCallsEnd ==
  \/ []<>(pc["e1"] # "exec")
  \/ []<><<ProviderReturns("e1")>>_vars

\* the enabling condition of ProviderReturns("e1")
ReturnsEnabled ==
  (pc["e1"] = "exec") <=> ENABLED ProviderReturns("e1")

SpecLive == Init /\ [][NextLive]_vars /\ ProviderCallsEnd

(***************************************************************************)
(* _topological_sort on its own: every list of at most three steps with    *)
(* ids among a, b, c (repeated ids included) and depends_on lists over     *)
(* a, b, c, or naming the id of no step.                                   *)
(***************************************************************************)
SortDepLists == DepLists \cup {<<MissingId>>}
SortSteps == {PlainStep(id, deps) : id \in StepIds, deps \in SortDepLists}
\* the steps of the lists of three: up to two dependencies each
SortStepsOfThree ==
  {PlainStep(id, deps) : id \in StepIds,
                         deps \in SeqsUpTo(StepIds, 2) \cup {<<MissingId>>}}
SortInputs ==
  {<<>>} \cup {<<s1>> : s1 \in SortSteps}
         \cup {<<s1, s2>> : s1 \in SortSteps, s2 \in SortSteps}
         \cup {<<s1, s2, s3>> : s1 \in SortStepsOfThree, s2 \in SortStepsOfThree,
                                s3 \in SortStepsOfThree}

InitSort ==
  /\ InitOrchestrator
  /\ sort_in \in SortInputs
  /\ sort_out = NotSorted

CallSort ==
  /\ sort_out = NotSorted
  /\ sort_out' = TopologicalSort(sort_in)
  /\ UNCHANGED <<reg_vars, flow_vars, sort_in, chat_vars, route_vars, more_vars>>

SpecSort == InitSort /\ [][CallSort]_vars


(***************************************************************************)
(* Chat calls, while providers are unregistered from the registry.         *)
(***************************************************************************)
Messages ==
  {{},
   {"task"},
   {"calendar", "schedule", "meeting"},
   {"grant", "funding", "nih", "proposal", "literature"},
   {"plan", "goal", "strategy", "task"},
   {"write", "draft", "edit", "abstract"}}

ChatRequests ==
  [agent_type : AgentType \cup {None}, message : Messages]

\* the handoff of an AgentResult: none, or a directive
Handoffs == {NoHandoff, Handoff("writing", "needs drafting")}

\* what the awaited agent.execute can do: return an AgentResult, with or
\* without a handoff, or raise
ChatOutcomes ==
  {[kind |-> o.kind, status |-> o.status, output |-> o.output, error |-> o.error,
    handoff |-> h] : o \in {r \in Outcomes : r.kind = "result"}, h \in Handoffs}
    \cup {[kind |-> RaiseOutcome.kind, status |-> None, output |-> EmptyMap,
           error |-> RaiseOutcome.error, handoff |-> NoHandoff]}

\* a call of chat(request, context)
Chat ==
  /\ chat_pc = "idle"
  /\ \E req \in ChatRequests :
       LET c == ChatStart(req, registry, agents)
       IN  /\ chat_request' = req
           /\ chat_pc' = c.pc
           /\ chat_agent' = c.agent
           /\ chat_response' = c.response
           /\ chat_log' = c.log
  /\ UNCHANGED <<reg_vars, flow_vars, sort_vars, route_vars, more_vars>>

\* the provider call the chat awaits ends, by a result or an exception
ChatProviderReturns ==
  /\ chat_pc = "exec"
  /\ \E outcome \in ChatOutcomes :
       LET c == ChatResume(chat_agent, outcome)
       IN  /\ chat_pc' = c.pc
           /\ chat_agent' = c.agent
           /\ chat_response' = c.response
           /\ chat_log' = [chat_log EXCEPT
                             !.handoff = outcome.handoff,
                             !.executes = IF c.pc = "exec" THEN Append(@, c.agent)
                                          ELSE @]
  /\ UNCHANGED <<reg_vars, flow_vars, sort_vars, chat_request, route_vars, more_vars>>

\* a call of registry.unregister(agent_type)
\* a call of registry.unregister(agent_type), for one of the given types
UnregisterOf(types) ==
  /\ \E agent_type \in types :
       /\ Registered(registry, agent_type)
       /\ registry' = UnregisterFrom(registry, agent_type)
       /\ agents' = [agents EXCEPT ![agent_type] = NoAgent]
       /\ latest' = UnregisterFrom(latest, agent_type)
       /\ init_log' = Touched(init_log, agent_type)
  /\ route_in' = NoRouteIn
  /\ route_out' = NoRouteOut
  /\ UNCHANGED <<initialized, flow_vars, sort_vars, chat_vars, more_vars>>

Unregister == UnregisterOf(AgentType)

NextChat ==
  \/ Chat
  \/ ChatProviderReturns
  \/ Unregister

SpecChat == Init /\ [][NextChat]_vars


(***************************************************************************)
(* The registry on its own, from its construction: providers are           *)
(* registered (a second provider of a type replaces the first) and         *)
(* unregistered, and route_request is called.  route_in and route_out hold *)
(* the call made on the registry as it is.                                 *)
(***************************************************************************)
\* a keyword list: core, then n words that occur in no message
Pad(core, n) == core \o [i \in 1..n |-> "p" \o ToString(i)]

RouteTypes == {"task", "grant", "planner"}

\* the providers registered: of type task those with the keyword u among 1 to
\* MaxPad + 1 keywords and the TaskAgent of initialize_agents; of the other
\* types some whose confidences can tie, and one without keywords
RouteAgents ==
  {Agent("task", Pad(<<"u">>, n)) : n \in 0..MaxPad}
    \cup {BuiltIn("task")}
    \cup {Agent("grant", k) : k \in {<<"u">>, <<"v">>, <<"u", "v">>}}
    \cup {Agent("planner", k) : k \in {<<"u">>, <<"u", "p1">>, <<>>}}

RouteMessages == (SUBSET {"u", "v"}) \cup {{"todo"}}

\* a call of registry.register(agent), for one of the given providers
RegisterOf(providers) ==
  /\ \E agent \in providers :
       /\ registry' = RegisterIn(registry, agent.agent_type)
       /\ agents' = [agents EXCEPT ![agent.agent_type] = agent]
       /\ latest' = Append(UnregisterFrom(latest, agent.agent_type), agent.agent_type)
       /\ init_log' = Touched(init_log, agent.agent_type)
  /\ route_in' = NoRouteIn
  /\ route_out' = NoRouteOut
  /\ UNCHANGED <<initialized, flow_vars, sort_vars, chat_vars, more_vars>>

Register == RegisterOf(RouteAgents)

\* a call of registry.route_request(request, context, exclude)
RouteCall ==
  /\ ~route_out.called
  /\ \E message \in RouteMessages, exclude \in SUBSET RouteTypes :
       LET r == RouteRequest(registry, agents, message, exclude)
       IN  /\ route_in' = [message |-> message, exclude |-> exclude]
           /\ route_out' = [called |-> TRUE, agent |-> r.agent,
                            confidence |-> r.confidence]
  /\ UNCHANGED <<reg_vars, flow_vars, sort_vars, chat_vars, more_vars>>

\* a call of registry.initialize_agents()
InitializeAgents ==
  /\ init_log.calls < MaxCalls
  /\ LET st == InitializeAgentsIn([registry |-> registry, agents |-> agents,
                                   latest |-> latest, initialized |-> initialized])
     IN  /\ registry' = st.registry
         /\ agents' = st.agents
         /\ latest' = st.latest
         /\ initialized' = st.initialized
  /\ init_log' = [calls |-> init_log.calls + 1, before |-> init_log.since,
                  since |-> {}]
  /\ route_in' = NoRouteIn
  /\ route_out' = NoRouteOut
  /\ UNCHANGED <<flow_vars, sort_vars, chat_vars, more_vars>>

\* AgentRegistry.__init__, under a constructed orchestrator
InitRegistry ==
  /\ registry = <<>>
  /\ agents = [t \in AgentType |-> NoAgent]
  /\ initialized = FALSE
  /\ latest = <<>>
  /\ init_log = NoInitLog
  /\ route_in = NoRouteIn
  /\ route_out = NoRouteOut
  /\ active = {}
  /\ execution = [e \in ExecIds |-> NoExecution]
  /\ request = [e \in ExecIds |-> NoRequest]
  /\ step_order = [e \in ExecIds |-> <<>>]
  /\ position = [e \in ExecIds |-> 1]
  /\ frame = [e \in ExecIds |-> NoFrame]
  /\ pc = [e \in ExecIds |-> "idle"]
  /\ response = [e \in ExecIds |-> NoResponse]
  /\ calls = [e \in ExecIds |-> <<>>]
  /\ received = [e \in ExecIds |-> <<>>]
  /\ executed = [e \in ExecIds |-> <<>>]
  /\ chat_pc = "idle"
  /\ chat_request = NoChatRequest
  /\ chat_agent = None
  /\ chat_response = NoChatResponse
  /\ chat_log = NoChatLog
  /\ resolve_in = NoResolveIn
  /\ resolve_out = NotResolved
  /\ InitTasks
  /\ InitQueue
  /\ InitTest
  /\ prev_in = NoPrevIn
  /\ prev_out = NotResolved
  /\ sort_in = <<>>
  /\ sort_out = NotSorted

NextRoute ==
  \/ Register
  \/ Unregister
  \/ RouteCall

SpecRoute == InitRegistry /\ [][NextRoute]_vars

\* the registry with initialize_agents called on it, any number of times up
\* to MaxCalls, between registers and unregisters
Replacements ==
  {Agent("task", <<"u">>), Agent("grant", <<"u">>), BuiltIn("planner")}

NextInitialize ==
  \/ InitializeAgents
  \/ RegisterOf(Replacements)
  \/ UnregisterOf(RouteTypes)

SpecInitialize == InitRegistry /\ [][NextInitialize]_vars


(***************************************************************************)
(* The steps. branch of _resolve_references on its own: the template       *)
(* {{steps.a.output.PATH}} against a recorded, non-empty output of step a. *)
(* An output is a map from the paths of its leaves to their values: maps   *)
(* nested up to two deep with keys x and y, the leaves strings or 0.       *)
(***************************************************************************)
PathKeys == {"x", "y"}
LeafValues == {"42", "", ZeroInt}
LeafPaths == SeqsUpTo(PathKeys, 2) \ {<<>>}

\* no leaf lies under another leaf
PrefixFree(D) == \A p, q \in D : p # q => ~IsPrefix(p, q)

ResolveOutputs ==
  UNION {[D -> LeafValues] : D \in {E \in SUBSET LeafPaths : E # {} /\ PrefixFree(E)}}

ResolvePaths == SeqsUpTo(PathKeys, MaxPath)

\* an execution in which step a is recorded completed with the output
RecordedOutput(output) ==
  [NoExecution EXCEPT
     !.status = "running",
     !.step_results = <<[key |-> "a",
                         result |-> StepResult("a", "completed", output, None,
                                               "task")]>>]

\* _resolve_references on the string "{{steps.a.output.PATH}}"
CallResolve ==
  /\ ~resolve_out.called
  /\ \E output \in ResolveOutputs, path \in ResolvePaths :
       /\ resolve_in' = [output |-> output, path |-> path]
       /\ resolve_out' =
            [called |-> TRUE,
             text |-> ResolveReferences(<<"steps", "a", "output">> \o path,
                                        RecordedOutput(output), EmptyMap)]
  /\ UNCHANGED <<reg_vars, flow_vars, sort_vars, chat_vars, route_vars,
                 task_vars, queue_vars, ab_vars, prev_vars>>

SpecResolve == Init /\ [][CallResolve]_vars


(***************************************************************************)
(* Two calls of orchestrate on one orchestrator, their provider calls      *)
(* interleaved in every way.  The workflows: step a, which fails the       *)
(* workflow, is skipped over or falls back to the planner, then step c     *)
(* with the template {{steps.a.output.x}} as its input.                    *)
(***************************************************************************)
PairWorkflows ==
  {Workflow(<<Step("a", "task", <<>>, NoCondition, 0, pol[1], pol[2], <<>>),
              Step("c", "task", <<>>, NoCondition, 0, "fail", None,
                   <<"steps", "a", "output", "x">>)>>, "continue") :
     pol \in {<<"fail", None>>, <<"skip", None>>, <<"fallback", "planner">>}}

NextPair ==
  \/ \E e \in ExecIds : Orchestrate(e, PairWorkflows)
  \/ \E e \in ExecIds : ProviderReturns(e)

SpecPair == Init /\ [][NextPair]_vars


(***************************************************************************)
(* Two runs of the same steps side by side, the first under continue,      *)
(* retry or fallback, the second under any of the four modes, both given   *)
(* the same outcome by every provider call.                                *)
(***************************************************************************)
Modes == {"fail_fast", "continue", "retry", "fallback"}

ModeSteps ==
  {<<s1>> : s1 \in FirstSteps(1)}
    \cup {<<s1, s2>> : s1 \in FirstSteps(1), s2 \in SecondSteps \cup ConditionedSteps}

ApplyBoth(st1, st2) ==
  LET both(f, x1, x2) == [f EXCEPT !["e1"] = x1, !["e2"] = x2]
  IN  /\ execution' = both(execution, st1.execution, st2.execution)
      /\ active' = (active \ {"e1", "e2"})
                      \cup (IF st1.mapped THEN {"e1"} ELSE {})
                      \cup (IF st2.mapped THEN {"e2"} ELSE {})
      /\ step_order' = both(step_order, st1.step_order, st2.step_order)
      /\ position' = both(position, st1.position, st2.position)
      /\ frame' = both(frame, st1.frame, st2.frame)
      /\ pc' = both(pc, st1.pc, st2.pc)
      /\ response' = both(response, st1.response, st2.response)
      /\ calls' = both(calls, st1.calls, st2.calls)
      /\ received' = both(received, st1.received, st2.received)
      /\ executed' = both(executed, st1.executed, st2.executed)

\* orchestrate is called with the same steps under two modes
OrchestrateModes ==
  /\ pc["e1"] = "idle" /\ pc["e2"] = "idle"
  /\ \E steps \in ModeSteps, m1 \in Modes \ {"fail_fast"}, m2 \in Modes :
       LET r1 == Request(Workflow(steps, m1))
           r2 == Request(Workflow(steps, m2))
       IN  /\ request' = [request EXCEPT !["e1"] = r1, !["e2"] = r2]
           /\ ApplyBoth(OrchestrateStart(r1, registry), OrchestrateStart(r2, registry))
  /\ UNCHANGED <<reg_vars, sort_vars, chat_vars, route_vars, more_vars>>

\* the provider calls the two runs await end in the same way
ProviderReturnsModes ==
  /\ pc["e1"] = "exec" /\ pc["e2"] = "exec"
  /\ \E outcome \in Outcomes :
       ApplyBoth(OrchestrateResume(StateOf("e1"), outcome, request["e1"], registry),
                 OrchestrateResume(StateOf("e2"), outcome, request["e2"], registry))
  /\ UNCHANGED <<reg_vars, request, sort_vars, chat_vars, route_vars, more_vars>>

NextModes == OrchestrateModes \/ ProviderReturnsModes

SpecModes == Init /\ [][NextModes]_vars


(***************************************************************************)
(* The prev. branch of _resolve_references on its own: the template        *)
(* {{prev.KEY}} against the results recorded for up to three steps.  A     *)
(* completed result carries the output of its provider, which may be       *)
(* empty; a failed or skipped result carries none.                         *)
(***************************************************************************)
PrevOutputs == {EmptyMap, OutX, (<<"y">> :> "7"), (<<"x">> :> ZeroInt)}

PrevResultsOf(id) ==
  {StepResult(id, "completed", o, None, "task") : o \in PrevOutputs}
    \cup {StepResult(id, "failed", EmptyMap, "boom", "task"),
          StepResult(id, "skipped", EmptyMap, None, "task")}

Entry(result) == [key |-> result.step_id, result |-> result]

PrevStepResults ==
  {<<>>}
    \cup {<<Entry(r1)>> : r1 \in PrevResultsOf("b")}
    \cup {<<Entry(r1), Entry(r2)>> :
            r1 \in PrevResultsOf("b"), r2 \in PrevResultsOf("a")}
    \cup {<<Entry(r1), Entry(r2), Entry(r3)>> :
            r1 \in PrevResultsOf("b"), r2 \in PrevResultsOf("a"),
            r3 \in PrevResultsOf("c")}

\* _resolve_references on the string "{{prev.KEY}}"
CallPrev ==
  /\ ~prev_out.called
  /\ \E step_results \in PrevStepResults, key \in {"x", "y"} :
       /\ prev_in' = [step_results |-> step_results, key |-> key]
       /\ prev_out' =
            [called |-> TRUE,
             text |-> ResolveReferences(
                        <<"prev", key>>,
                        [NoExecution EXCEPT !.status = "running",
                                            !.step_results = step_results],
                        EmptyMap)]
  /\ UNCHANGED <<reg_vars, flow_vars, sort_vars, chat_vars, route_vars,
                 resolve_vars, task_vars, queue_vars, ab_vars>>

SpecPrev == Init /\ [][CallPrev]_vars


(***************************************************************************)
(* Calls of execute_task, synchronous and detached, for a registered       *)
(* provider type and for one that is not, with the detached units and the  *)
(* task status queries of the router in between.                           *)
(***************************************************************************)
TaskTypes == {"task", "orchestrator"}

\* a call of execute_task(request, context)
ExecuteTask(t) ==
  /\ task_pc[t] = "idle"
  /\ \E agent_type \in TaskTypes, async_execution \in BOOLEAN :
       LET req == [agent_type |-> agent_type, async_execution |-> async_execution]
           st == ExecuteTaskStart(req, registry, uuids)
       IN  /\ task_request' = [task_request EXCEPT ![t] = req]
           /\ task_pc' = [task_pc EXCEPT ![t] = st.pc]
           /\ task_response' = [task_response EXCEPT ![t] = st.response]
           /\ task_log' = [task_log EXCEPT ![t] = st.log]
           /\ uuids' = uuids + 1
  /\ UNCHANGED <<reg_vars, flow_vars, sort_vars, chat_vars, route_vars,
                 resolve_vars, status_seen, queue_vars, ab_vars, prev_vars>>

\* the provider call a synchronous execute_task awaits ends
TaskProviderReturns(t) ==
  /\ task_pc[t] = "exec"
  /\ \E outcome \in TaskOutcomes :
       /\ task_response' =
            [task_response EXCEPT
               ![t] = ExecuteTaskResume(task_response[t].task_id, outcome)]
       /\ task_log' = [task_log EXCEPT ![t].finished = outcome]
  /\ task_pc' = [task_pc EXCEPT ![t] = "returned"]
  /\ UNCHANGED <<reg_vars, flow_vars, sort_vars, chat_vars, route_vars,
                 resolve_vars, task_request, uuids, status_seen, queue_vars,
                 ab_vars, prev_vars>>

\* the unit asyncio.create_task detached runs _execute_task_async to its end
BackgroundReturns(t) ==
  /\ task_log[t].background = "scheduled"
  /\ \E outcome \in TaskOutcomes :
       task_log' = [task_log EXCEPT ![t] = ExecuteTaskAsync(task_log[t], outcome)]
  /\ UNCHANGED <<reg_vars, flow_vars, sort_vars, chat_vars, route_vars,
                 resolve_vars, task_pc, task_request, task_response, uuids,
                 status_seen, queue_vars, ab_vars, prev_vars>>

\* the detached unit of the task with this id has ended
Ended(task_id) ==
  \E t \in TaskCalls : /\ task_response[t].task_id = task_id
                        /\ task_log[t].background = "done"

\* GET /tasks/{task_id} for the id of a task handed out
TaskStatusQuery ==
  /\ Len(status_seen) < MaxQueries
  /\ \E task_id \in 1..uuids :
       status_seen' = Append(status_seen, [reply |-> GetTaskStatus(task_id),
                                           ended |-> Ended(task_id)])
  /\ UNCHANGED <<reg_vars, flow_vars, sort_vars, chat_vars, route_vars,
                 resolve_vars, task_pc, task_request, task_response, task_log,
                 uuids, queue_vars, ab_vars, prev_vars>>

NextTasks ==
  \/ \E t \in TaskCalls : ExecuteTask(t)
  \/ \E t \in TaskCalls : TaskProviderReturns(t)
  \/ \E t \in TaskCalls : BackgroundReturns(t)
  \/ TaskStatusQuery

SpecTasks == Init /\ [][NextTasks]_vars


(***************************************************************************)
(* Messages sent and processed while a workflow of one step runs and the   *)
(* provider of type task is unregistered.                                  *)
(***************************************************************************)
Recipients == {"all", "orchestrator", "task", "grant"}

MessageWorkflows ==
  {Workflow(<<PlainStep("a", <<>>)>>, eh) : eh \in {"fail_fast", "continue"}}

\* a call of send_message(message)
SendMessage ==
  /\ Len(processed) + Len(message_queue) < MaxMessages
  /\ \E recipient \in Recipients :
       message_queue' =
         SendMessageIn(message_queue, registry,
                       Message(recipient, Len(processed) + Len(message_queue) + 1))
  /\ UNCHANGED <<reg_vars, flow_vars, sort_vars, chat_vars, route_vars,
                 resolve_vars, task_vars, processed, ab_vars, prev_vars>>

\* a call of process_messages()
ProcessMessages ==
  /\ LET st == ProcessMessagesIn(message_queue, processed)
     IN  /\ message_queue' = st.queue
         /\ processed' = st.dequeued
  /\ UNCHANGED <<reg_vars, flow_vars, sort_vars, chat_vars, route_vars,
                 resolve_vars, task_vars, ab_vars, prev_vars>>

NextMessages ==
  \/ SendMessage
  \/ ProcessMessages
  \/ UnregisterOf({"task"})
  \/ Orchestrate("e1", MessageWorkflows)
  \/ ProviderReturns("e1")

SpecMessages == Init /\ [][NextMessages]_vars


(***************************************************************************)
(* A request to analyze_ab_test, for every pair of group sizes up to       *)
(* MaxSamples.                                                             *)
(***************************************************************************)
CallAnalyze ==
  /\ ~ab_out.called
  /\ \E control \in 0..MaxSamples, treatment \in 0..MaxSamples, fault \in BOOLEAN :
       /\ ab_in' = [control |-> control, treatment |-> treatment, fault |-> fault]
       /\ ab_out' = AnalyzeAbTest(control, treatment, fault)
  /\ UNCHANGED <<reg_vars, flow_vars, sort_vars, chat_vars, route_vars,
                 resolve_vars, task_vars, queue_vars, prev_vars>>

SpecAnalyze == Init /\ [][CallAnalyze]_vars


(***************************************************************************)
(* Properties of a step list, stated without the sort.                     *)
(***************************************************************************)
IdsOf(steps) == {steps[i].id : i \in 1..Len(steps)}

UniqueIds(steps) ==
  \A i, j \in 1..Len(steps) : steps[i].id = steps[j].id => i = j

DepsExist(steps) ==
  \A i \in 1..Len(steps) : SeqToSet(steps[i].depends_on) \subseteq IdsOf(steps)

\* the ids that steps named id list in depends_on
DependsOn(steps, id) ==
  UNION {SeqToSet(steps[i].depends_on) : i \in {j \in 1..Len(steps) : steps[j].id = id}}

\* the ids reached from the set S along at most n dependency edges
RECURSIVE Reach(_, _, _)
Reach(steps, S, n) ==
  IF n = 0 THEN S
  ELSE Reach(steps, S \cup UNION {DependsOn(steps, id) : id \in S}, n - 1)

\* every id id depends on, directly or through other steps
Ancestors(steps, id) == Reach(steps, DependsOn(steps, id), Len(steps))

Cyclic(steps) == \E id \in IdsOf(steps) : id \in Ancestors(steps, id)

PositionIn(order, id) == CHOOSE i \in 1..Len(order) : order[i] = id

\* order holds every step id once, each after all its dependencies
ValidOrder(steps, order) ==
  /\ Len(order) = Len(steps)
  /\ SeqToSet(order) = IdsOf(steps)
  /\ \A i, j \in 1..Len(order) : order[i] = order[j] => i = j
  /\ \A i \in 1..Len(steps) :
       \A d \in SeqToSet(steps[i].depends_on) :
         /\ d \in SeqToSet(order)
         /\ PositionIn(order, d) < PositionIn(order, steps[i].id)

(***************************************************************************)
(* C1: for steps with unique ids whose depends_on entries name steps of    *)
(* the list and form no cycle, _topological_sort returns an order with     *)
(* every step id once and every step after its dependencies; for steps     *)
(* whose depends_on edges have a cycle it fails with the circular error.   *)
(***************************************************************************)
C1_SortContract ==
  sort_out # NotSorted =>
    /\ (UniqueIds(sort_in) /\ DepsExist(sort_in) /\ ~Cyclic(sort_in)) =>
         (sort_out.ok /\ ValidOrder(sort_in, sort_out.order))
    /\ Cyclic(sort_in) => (~sort_out.ok /\ sort_out.error = CircularError)

\* the same with no dependency listed twice in a depends_on: this holds
NoRepeatedDeps(steps) ==
  \A i \in 1..Len(steps) :
    \A m, n \in 1..Len(steps[i].depends_on) :
      steps[i].depends_on[m] = steps[i].depends_on[n] => m = n

C1_SortContractOfSets ==
  (sort_out # NotSorted /\ NoRepeatedDeps(sort_in)) =>
    /\ (UniqueIds(sort_in) /\ DepsExist(sort_in) /\ ~Cyclic(sort_in)) =>
         (sort_out.ok /\ ValidOrder(sort_in, sort_out.order))
    /\ Cyclic(sort_in) => (~sort_out.ok /\ sort_out.error = CircularError)


(***************************************************************************)
(* Readings of the run of one orchestrate call.                            *)
(***************************************************************************)
StepsOf(e) == request[e].workflow.steps
ResultsOf(e) == execution[e].step_results

\* the provider calls started for a step, by its provider or its fallback
NumCalls(e, step_id, fallback) ==
  Cardinality({i \in 1..Len(calls[e]) :
                 calls[e][i] = [step |-> step_id, fallback |-> fallback]})

\* the returns of _execute_workflow_step for a step
ExecutedOf(e, step_id, fallback) ==
  {j \in 1..Len(executed[e]) :
     executed[e][j].step = step_id /\ executed[e][j].fallback = fallback}

\* the last return of _execute_workflow_step for a step
LastExecuted(e, step_id) ==
  executed[e][CHOOSE j \in 1..Len(executed[e]) :
                /\ executed[e][j].step = step_id
                /\ \A k \in (j + 1)..Len(executed[e]) : executed[e][k].step # step_id]

\* the retries an execution was allowed: the step's, or none for a fallback
RetriesOf(e, x) == IF x.fallback THEN 0 ELSE FindStep(StepsOf(e), x.step).retries

(***************************************************************************)
(* C2: when orchestrate is given a workflow whose dependency graph has a   *)
(* cycle, no provider call is started for any step, a step outside the     *)
(* cycle included, and orchestrate returns status failed with an empty     *)
(* result map and the circular-dependency error text.                      *)
(***************************************************************************)
C2_CyclicRunsNothing ==
  \A e \in ExecIds :
    (pc[e] # "idle" /\ Cyclic(StepsOf(e))) =>
      /\ pc[e] = "returned"
      /\ calls[e] = <<>>
      /\ executed[e] = <<>>
      /\ response[e] = [raised |-> FALSE, status |-> "failed", results |-> <<>>,
                        error |-> CircularError]

\* a cyclic workflow with a step outside the cycle, one with no dependency
\* that no step of a cycle is reached from, has been answered
C2_Witness ==
  \E e \in ExecIds :
    /\ pc[e] = "returned"
    /\ Cyclic(StepsOf(e))
    /\ \E i \in 1..Len(StepsOf(e)) :
         /\ StepsOf(e)[i].depends_on = <<>>
         /\ \A id \in IdsOf(StepsOf(e)) :
              id \in Ancestors(StepsOf(e), id) =>
                StepsOf(e)[i].id \notin Ancestors(StepsOf(e), id)

(***************************************************************************)
(* C3: after a call of orchestrate has returned, completed or failed and   *)
(* whatever its steps did, get_workflow_status of its execution id is      *)
(* absent: the execution is not in the active map.                         *)
(***************************************************************************)
C3_AbsentAfterReturn ==
  \A e \in ExecIds :
    pc[e] = "returned" =>
      /\ e \notin active
      /\ GetWorkflowStatus(e) = NoExecution

\* a call returned failed after a provider raised in one of its steps
C3_Witness ==
  \E e \in ExecIds :
    /\ pc[e] = "returned"
    /\ response[e].status = "failed"
    /\ \E j \in 1..Len(executed[e]) : executed[e][j].final.kind = "raise"

(***************************************************************************)
(* C4: orchestrate never raises: it returns completed or failed, and a     *)
(* failed response carries the error text of its cause (the sort's error,  *)
(* an unsatisfied dependency under fail_fast, a failed step with on_error  *)
(* fail) and exactly the results recorded before the abort: for every step *)
(* executed, the result of its last execution, and for every other key a   *)
(* skipped result.                                                         *)
(***************************************************************************)
ResultsMatchLog(e, results) ==
  /\ \A i \in 1..Len(results) :
       IF \E j \in 1..Len(executed[e]) : executed[e][j].step = results[i].key
       THEN results[i].result = LastExecuted(e, results[i].key).result
       ELSE results[i].result.status = "skipped"
  /\ \A j \in 1..Len(executed[e]) : HasResult(results, executed[e][j].step)
  /\ \A i, k \in 1..Len(results) : results[i].key = results[k].key => i = k

AbortCause(e) ==
  \/ /\ response[e].error = CircularError
     /\ ~TopologicalSort(StepsOf(e)).ok
     /\ response[e].results = <<>>
  \/ \E id \in IdsOf(StepsOf(e)) :
       /\ response[e].error = "Dependencies not satisfied for step: " \o id
       /\ request[e].workflow.error_handling = "fail_fast"
       /\ ~HasResult(response[e].results, id)
  \/ \E id \in IdsOf(StepsOf(e)) :
       /\ HasResult(response[e].results, id)
       /\ ResultOf(response[e].results, id).status = "failed"
       /\ FindStep(StepsOf(e), id).on_error = "fail"
       /\ response[e].error =
            "Step failed: " \o id \o " - " \o ResultOf(response[e].results, id).error

C4_AbortsReturnFailed ==
  \A e \in ExecIds :
    pc[e] = "returned" =>
      /\ ~response[e].raised
      /\ response[e].status \in {"completed", "failed"}
      /\ response[e].results = ResultsOf(e)
      /\ ResultsMatchLog(e, response[e].results)
      /\ response[e].status = "failed" => AbortCause(e)
      /\ response[e].status = "completed" => response[e].error = None

\* a call aborted on an unsatisfied dependency after a step had been recorded
C4_Witness ==
  \E e \in ExecIds :
    /\ pc[e] = "returned"
    /\ response[e].status = "failed"
    /\ response[e].results # <<>>
    /\ \E id \in IdsOf(StepsOf(e)) :
         response[e].error = "Dependencies not satisfied for step: " \o id

(***************************************************************************)
(* C5: chat never raises: for every request, one naming a provider type    *)
(* that is not registered, one that routing matches to no provider while   *)
(* the planner is unregistered, and one whose provider raises in execute   *)
(* included, chat returns a response whose content explains the error.     *)
(***************************************************************************)
C5_ChatNeverRaises ==
  chat_pc = "returned" =>
    /\ ~chat_response.raised
    /\ chat_response.content # None

(***************************************************************************)
(* C6: the provider call of a step starts only when every step named in    *)
(* its depends_on has a recorded result with status completed or skipped,  *)
(* and after every provider call of those steps.                           *)
(***************************************************************************)
C6_CallsAfterDependencies ==
  \A e \in ExecIds :
    \A i \in 1..Len(calls[e]) :
      \A d \in DependsOn(StepsOf(e), calls[e][i].step) :
        /\ HasResult(ResultsOf(e), d)
        /\ ResultOf(ResultsOf(e), d).status \in {"completed", "skipped"}
        /\ \A j \in 1..Len(calls[e]) : calls[e][j].step = d => j < i

\* the provider of a step with two dependencies has been called, after the
\* providers of both
C6_Witness ==
  \E e \in ExecIds :
    \E i \in 1..Len(calls[e]) :
      /\ Cardinality(DependsOn(StepsOf(e), calls[e][i].step)) = 2
      /\ \A d \in DependsOn(StepsOf(e), calls[e][i].step) : NumCalls(e, d, FALSE) = 1

(***************************************************************************)
(* C7: when the attempts of a step execution time out or return            *)
(* non-completed results and then one returns completed, that attempt is   *)
(* the last: the step is recorded completed with the output of that        *)
(* attempt, the attempts made are those k + 1 <= retries + 1, and no       *)
(* attempt follows a completed one.                                        *)
(***************************************************************************)
C7_FirstCompletedEnds ==
  \A e \in ExecIds :
    /\ \A i \in 1..Len(received[e]) : received[e][i] # "completed"
    /\ \A j \in 1..Len(executed[e]) :
         LET x == executed[e][j]
             n == Len(x.kinds)
         IN  (\E i \in 1..n : x.kinds[i] = "completed") =>
               /\ x.kinds[n] = "completed"
               /\ \A i \in 1..(n - 1) : x.kinds[i] \in {"failed", "timeout"}
               /\ x.result.status = "completed"
               /\ x.result.output = x.final.output
               /\ x.result.error = None
               /\ NumCalls(e, x.step, x.fallback) = n
               /\ n <= RetriesOf(e, x) + 1

\* a step with retries = 2 completed on its third attempt with output {x: "42"}
C7_Witness ==
  \E e \in ExecIds :
    \E j \in 1..Len(executed[e]) :
      LET x == executed[e][j]
      IN  /\ ~x.fallback
          /\ RetriesOf(e, x) = 2
          /\ Len(x.kinds) = 3
          /\ x.kinds[3] = "completed"
          /\ x.result.status = "completed"
          /\ x.result.output = OutX
          /\ NumCalls(e, x.step, FALSE) = 3

(***************************************************************************)
(* C8, as stated: for a step with retries = n >= 0 and a registered        *)
(* provider whose attempts all time out or return non-completed results,   *)
(* exactly n + 1 attempts are made and the step is recorded failed with    *)
(* the error of the last attempt: the timeout text if it timed out,        *)
(* otherwise the error text of the last provider result.                   *)
(***************************************************************************)
Exhausted(x) ==
  /\ x.kinds # <<>>
  /\ \A i \in 1..Len(x.kinds) : x.kinds[i] \in {"failed", "timeout"}

C8_LastErrorOfResult ==
  \A e \in ExecIds :
    \A j \in 1..Len(executed[e]) :
      LET x == executed[e][j]
      IN  Exhausted(x) =>
            /\ Len(x.kinds) = RetriesOf(e, x) + 1
            /\ NumCalls(e, x.step, x.fallback) = RetriesOf(e, x) + 1
            /\ x.result.status = "failed"
            /\ x.result.error =
                 IF x.final.kind = "timeout" THEN TimeoutError ELSE x.final.error

(***************************************************************************)
(* C8, amended: ... otherwise the error text of the last provider result,  *)
(* or the text "Agent execution failed" when that result has no error      *)
(* text.                                                                   *)
(***************************************************************************)
C8_LastErrorOrDefault ==
  \A e \in ExecIds :
    \A j \in 1..Len(executed[e]) :
      LET x == executed[e][j]
      IN  Exhausted(x) =>
            /\ Len(x.kinds) = RetriesOf(e, x) + 1
            /\ NumCalls(e, x.step, x.fallback) = RetriesOf(e, x) + 1
            /\ x.result.status = "failed"
            /\ x.result.error =
                 IF x.final.kind = "timeout" THEN TimeoutError
                 ELSE IF x.final.error # None THEN x.final.error
                 ELSE DefaultError

\* a step with retries = 2 failed after three attempts, the last a result
\* without error text
C8_Witness ==
  \E e \in ExecIds :
    \E j \in 1..Len(executed[e]) :
      LET x == executed[e][j]
      IN  /\ Exhausted(x)
          /\ RetriesOf(e, x) = 2
          /\ Len(x.kinds) = 3
          /\ x.final.kind = "result"
          /\ x.final.error = None
          /\ x.result.error = DefaultError

(***************************************************************************)
(* C9: for a step with on_error = fallback and a fallback provider whose   *)
(* primary execution ended failed, the fallback is executed once, with at  *)
(* most one provider call (one when the fallback provider is registered),  *)
(* whatever the step's retries; when the run has returned, the result      *)
(* under the step's id is the fallback execution's result, completed or    *)
(* failed, and the loop went on past the step.                             *)
(***************************************************************************)
FellBack(e, step) ==
  /\ step.on_error = "fallback"
  /\ step.fallback_agent # None
  /\ \E j \in ExecutedOf(e, step.id, FALSE) : executed[e][j].result.status = "failed"

C9_FallbackOnce ==
  \A e \in ExecIds :
    \A i \in 1..Len(StepsOf(e)) :
      LET step == StepsOf(e)[i]
      IN  /\ NumCalls(e, step.id, TRUE) <= 1
          /\ Cardinality(ExecutedOf(e, step.id, TRUE)) <= 1
          /\ (pc[e] = "returned" /\ FellBack(e, step)) =>
               /\ Cardinality(ExecutedOf(e, step.id, TRUE)) = 1
               /\ NumCalls(e, step.id, TRUE) =
                    IF Registered(registry, step.fallback_agent) THEN 1 ELSE 0
               /\ \A j \in ExecutedOf(e, step.id, TRUE) :
                    /\ HasResult(response[e].results, step.id)
                    /\ ResultOf(response[e].results, step.id) = executed[e][j].result
                    /\ executed[e][j].result.step_id = step.id \o "_fallback"
               /\ position[e] > PositionIn(step_order[e], step.id)

\* a step with retries = 2 failed three times, its fallback provider was called
\* once and failed, and the workflow completed with the fallback's result
C9_Witness ==
  \E e \in ExecIds :
    \E i \in 1..Len(StepsOf(e)) :
      LET step == StepsOf(e)[i]
      IN  /\ pc[e] = "returned"
          /\ FellBack(e, step)
          /\ step.retries = 2
          /\ NumCalls(e, step.id, FALSE) = 3
          /\ NumCalls(e, step.id, TRUE) = 1
          /\ response[e].status = "completed"
          /\ ResultOf(response[e].results, step.id).status = "failed"
          /\ ResultOf(response[e].results, step.id).agent_type = step.fallback_agent

(***************************************************************************)
(* C10: the input template {{steps.a.output.x}} of a step resolves to "42" *)
(* when step a is recorded completed with output {x: "42"}, and to the     *)
(* empty string when a has no recorded result or its result is failed or   *)
(* skipped.                                                                *)
(***************************************************************************)
RefAX == <<"steps", "a", "output", "x">>

C10_ResolvesReference ==
  \A e \in ExecIds :
    (pc[e] = "exec" /\ ~frame[e].fallback /\ frame[e].step.input = RefAX) =>
      /\ (/\ HasResult(ResultsOf(e), "a")
          /\ ResultOf(ResultsOf(e), "a").status = "completed"
          /\ ResultOf(ResultsOf(e), "a").output = OutX)
           => frame[e].resolved = "42"
      /\ (\/ ~HasResult(ResultsOf(e), "a")
          \/ ResultOf(ResultsOf(e), "a").status \in {"failed", "skipped"})
           => frame[e].resolved = ""

\* the template was resolved to "42" after a completed with {x: "42"}
C10_Witness ==
  \E e \in ExecIds :
    /\ pc[e] = "exec"
    /\ frame[e].step.input = RefAX
    /\ HasResult(ResultsOf(e), "a")
    /\ ResultOf(ResultsOf(e), "a").status = "completed"
    /\ ResultOf(ResultsOf(e), "a").output = OutX
    /\ frame[e].resolved = "42"

(***************************************************************************)
(* C11: when a step with on_error = fail ends failed, its retries          *)
(* exhausted or its provider not registered, orchestrate returns at once:  *)
(* status failed, an error with the step's id and error text, the failed   *)
(* result among the results, and no provider call for a step later in the  *)
(* order.                                                                  *)
(***************************************************************************)
FailedOnFail(e, x) ==
  /\ ~x.fallback
  /\ x.result.status = "failed"
  /\ FindStep(StepsOf(e), x.step).on_error = "fail"

C11_FailAborts ==
  \A e \in ExecIds :
    \A j \in 1..Len(executed[e]) :
      LET x == executed[e][j]
      IN  FailedOnFail(e, x) =>
            /\ pc[e] = "returned"
            /\ j = Len(executed[e])
            /\ response[e].status = "failed"
            /\ response[e].error =
                 "Step failed: " \o x.step \o " - " \o x.result.error
            /\ HasResult(response[e].results, x.step)
            /\ ResultOf(response[e].results, x.step) = x.result
            /\ \A i \in 1..Len(calls[e]) :
                 PositionIn(step_order[e], calls[e][i].step)
                   <= PositionIn(step_order[e], x.step)

\* the second of three steps failed after its provider was called, under
\* on_error = fail, and the third was left
C11_Witness ==
  \E e \in ExecIds :
    \E j \in 1..Len(executed[e]) :
      LET x == executed[e][j]
      IN  /\ FailedOnFail(e, x)
          /\ x.kinds # <<>>
          /\ Len(step_order[e]) = 3
          /\ PositionIn(step_order[e], x.step) = 2
          /\ Len(response[e].results) = 2

(***************************************************************************)
(* C12, as stated: the failure of a step whose on_error is skip or         *)
(* fallback is absorbed: a failed result stays recorded under the step's   *)
(* id, the loop goes on to the next step, and the failure does not make    *)
(* orchestrate return failed, in every error_handling mode and whether or  *)
(* not other steps depend on the step: a run returns failed only when a    *)
(* step with on_error = fail ended failed.                                 *)
(***************************************************************************)
Absorbing(step) == step.on_error \in {"skip", "fallback"}

\* the primary execution of the step ended failed
PrimaryFailed(e, step) ==
  \E j \in ExecutedOf(e, step.id, FALSE) : executed[e][j].result.status = "failed"

\* the call of the step's fallback provider is awaited
AwaitsFallback(e, step) ==
  pc[e] = "exec" /\ frame[e].fallback /\ step_order[e][position[e]] = step.id

\* the result stays recorded and the loop has gone on
Absorbed(e, step) ==
  /\ HasResult(ResultsOf(e), step.id)
  /\ ~AwaitsFallback(e, step) =>
       /\ ResultOf(ResultsOf(e), step.id) = LastExecuted(e, step.id).result
       /\ position[e] > PositionIn(step_order[e], step.id)
  /\ pc[e] = "returned" =>
       response[e].error # "Step failed: " \o step.id \o " - "
                             \o ResultOf(ResultsOf(e), step.id).error

LaterDependencyAbort(e, step) ==
  /\ request[e].workflow.error_handling = "fail_fast"
  /\ \E id \in IdsOf(StepsOf(e)) :
       /\ response[e].error = "Dependencies not satisfied for step: " \o id
       /\ PositionIn(step_order[e], id) > PositionIn(step_order[e], step.id)
       /\ ~HasResult(response[e].results, id)

RegisteredTypes == SeqToSet(registry)

\* the keywords of a provider's list the message contains
MatchesOf(agent_type, message) ==
  {i \in 1..Len(agents[agent_type].keywords) :
     agents[agent_type].keywords[i] \in message}

\* the message contains a keyword that, among the registered providers, only
\* x has
ExclusiveKeyword(x, message) ==
  \E i \in MatchesOf(x, message) :
    \A y \in RegisteredTypes \ {x} :
      \A j \in 1..Len(agents[y].keywords) :
        agents[y].keywords[j] # agents[x].keywords[i]

\* C13: a request holding a keyword only provider X has, no other registered
\* provider matching any keyword, is routed to X with a confidence above zero
C13_ExclusiveKeywordRoutes ==
  (route_out.called /\ route_in.exclude = {}) =>
    \A x \in RegisteredTypes :
      (/\ ExclusiveKeyword(x, route_in.message)
       /\ \A y \in RegisteredTypes \ {x} : MatchesOf(y, route_in.message) = {})
        => /\ route_out.agent = x
           /\ Greater(route_out.confidence, ZeroConfidence)

\* what the provider of a registered type reports for the routed message
ReportOf(agent_type) == CanHandle(agents[agent_type], route_in.message)

\* the non-excluded providers that report can-handle with a confidence above 0
Candidates ==
  {t \in RegisteredTypes \ route_in.exclude :
     ReportOf(t).can /\ Greater(ReportOf(t).confidence, ZeroConfidence)}

\* the candidates of the greatest confidence
Best ==
  {t \in Candidates :
     \A u \in Candidates : ~Greater(ReportOf(u).confidence, ReportOf(t).confidence)}

IndexIn(seq, x) == CHOOSE i \in 1..Len(seq) : seq[i] = x

\* the element of a set of registered types that comes first in seq
FirstIn(seq, types) ==
  CHOOSE t \in types : \A u \in types : IndexIn(seq, t) <= IndexIn(seq, u)

\* C14: of several providers tied at the greatest confidence route_request
\* returns the provider whose register call came first, a replacing register
\* counting as the register call of the provider it installs
C14_TieToFirstRegistered ==
  (route_out.called /\ Cardinality(Best) >= 2) =>
    route_out.agent = FirstIn(latest, Best)

\* C14 amended: of several providers tied at the greatest confidence
\* route_request returns the one whose type entered the registry first; a
\* replacing register takes the place of the provider it replaces
C14_TieToFirstKey ==
  (route_out.called /\ Cardinality(Best) >= 2) =>
    route_out.agent = FirstIn(registry, Best)

\* a tie decided after a replacing register changed the order of the calls
C14_Witness ==
  /\ route_out.called
  /\ Cardinality(Best) >= 2
  /\ FirstIn(latest, Best) # FirstIn(registry, Best)
  /\ route_out.agent = FirstIn(registry, Best)

\* C15: route_request never returns an excluded type; with a non-excluded
\* provider reporting can-handle it returns one of the greatest confidence and
\* that confidence, otherwise none and zero; a provider is returned exactly
\* when the returned confidence is above zero
C15_RouteContract ==
  route_out.called =>
    /\ route_out.agent \notin route_in.exclude
    /\ Candidates # {} =>
         /\ route_out.agent \in Best
         /\ route_out.confidence = ReportOf(route_out.agent).confidence
    /\ Candidates = {} =>
         /\ route_out.agent = None
         /\ route_out.confidence = ZeroConfidence
    /\ (route_out.agent # None) <=> Greater(route_out.confidence, ZeroConfidence)

\* a routing call that passed over an excluded provider of a higher confidence
C15_Witness ==
  /\ route_out.called
  /\ route_out.agent # None
  /\ \E t \in RegisteredTypes \cap route_in.exclude :
       /\ ReportOf(t).can
       /\ Greater(ReportOf(t).confidence, route_out.confidence)
  /\ Cardinality(Candidates) >= 2

\* ---- registry initialization ----

NoDuplicates(seq) == \A i, j \in 1..Len(seq) : seq[i] = seq[j] => i = j

\* C16: the first initialize_agents call leaves exactly one provider for each
\* type of the fixed set; every later call registers nothing, replaces nothing
\* and restores no provider unregistered or replaced since the call before it
C16_InitializeOnce ==
  [][init_log'.calls > init_log.calls =>
       /\ NoDuplicates(registry')
       /\ IF init_log.calls = 0
          THEN /\ \A t \in SeqToSet(InitialAgents) :
                    Registered(registry', t) /\ agents'[t] = BuiltIn(t)
               /\ Len(registry') = Len(InitialAgents)
          ELSE /\ registry' = registry
               /\ agents' = agents
               /\ latest' = latest]_vars

\* a later call made after one provider was unregistered and another replaced
\* found both as they were left
C16_Witness ==
  /\ init_log.calls >= 2
  /\ init_log.since = {}
  /\ \E t \in init_log.before : ~Registered(registry, t)
  /\ \E t \in init_log.before : Registered(registry, t) /\ agents[t] # BuiltIn(t)

\* ---- the order of a chain ----

\* steps a, b on a, and c on a and b
ChainSteps ==
  {PlainStep("a", <<>>), PlainStep("b", <<"a">>), PlainStep("c", <<"a", "b">>)}

\* the sort was called on the three chain steps, listed in some order
ChainSorted ==
  /\ sort_out # NotSorted
  /\ Len(sort_in) = 3
  /\ SeqToSet(sort_in) = ChainSteps

\* C17: steps a (no dependencies), b (on a) and c (on a and b) are ordered
\* a, b, c however the workflow lists them
C17_ChainOrder ==
  ChainSorted => (sort_out.ok /\ sort_out.order = <<"a", "b", "c">>)

\* the chain listed backwards, sorted
C17_Witness ==
  /\ ChainSorted
  /\ sort_in[1].id = "c" /\ sort_in[2].id = "b" /\ sort_in[3].id = "a"
  /\ sort_out.order = <<"a", "b", "c">>

\* ---- chat: handoffs and resolution ----

\* a chat call starts
ChatCalled == chat_pc = "idle" /\ chat_pc' # "idle"

\* C18: chat asks should_handoff of the resolved provider only; the provider
\* executing is its handoff target when that is registered and the resolved
\* provider otherwise; one provider's execute is called
C18_HandoffOnce ==
  [][/\ (ChatCalled /\ chat_log'.chosen # None) =>
          LET chosen == chat_log'.chosen
              target == ShouldHandoff(chosen, chat_request'.message)
          IN  /\ chat_log'.asked = <<chosen>>
              /\ chat_agent' = IF target # None /\ Registered(registry, target)
                               THEN target ELSE chosen
              /\ chat_log'.executes = <<chat_agent'>>
     /\ Len(chat_log'.executes) <= 1]_vars

\* a chat that handed off to a provider that would itself hand off
C18_Witness ==
  /\ chat_pc = "returned"
  /\ chat_log.chosen # None
  /\ chat_agent # chat_log.chosen
  /\ ShouldHandoff(chat_agent, chat_request.message) # None
  /\ Registered(registry, ShouldHandoff(chat_agent, chat_request.message))
  /\ chat_log.asked = <<chat_log.chosen>>
  /\ chat_log.executes = <<chat_agent>>

\* C19: a result with a handoff directive ends the chat: no other provider
\* is executed, the response has the executing provider's type, and the
\* directive is in the response metadata only
C19_DirectiveNotFollowed ==
  chat_log.handoff # NoHandoff =>
    /\ chat_pc = "returned"
    /\ chat_log.executes = <<chat_agent>>
    /\ chat_response.agent_type = chat_agent
    /\ chat_response.content = ResponseText
    /\ chat_response.handoff = chat_log.handoff

\* a chat returned with a directive to a registered provider
C19_Witness ==
  /\ chat_pc = "returned"
  /\ chat_log.handoff # NoHandoff
  /\ Registered(registry, chat_log.handoff.to_agent)
  /\ chat_agent # chat_log.handoff.to_agent
  /\ chat_response.handoff = chat_log.handoff
  /\ chat_response.agent_type = chat_agent

UnknownError(agent_type) == "Unknown agent type: " \o agent_type
NoAgentsError == "No agents available to handle request"

\* C20: chat takes the explicit provider type, failing with the unknown
\* provider error when it is not registered, without routing or default;
\* otherwise the routed provider; otherwise the planner; it fails with the
\* no providers error only when routing found none and the planner is not
\* registered
C20_ResolutionOrder ==
  [][ChatCalled =>
       LET req == chat_request'
           log == chat_log'
           res == chat_response'
           routed == RouteRequest(registry, agents, req.message, {})
       IN  /\ IF req.agent_type # None
              THEN /\ ~log.routed /\ ~log.defaulted
                   /\ IF Registered(registry, req.agent_type)
                      THEN log.chosen = req.agent_type /\ ~res.raised
                      ELSE /\ res.raised
                           /\ res.error = UnknownError(req.agent_type)
                           /\ log.chosen = None
              ELSE /\ log.routed
                   /\ IF routed.agent # None
                      THEN log.chosen = routed.agent /\ ~log.defaulted /\ ~res.raised
                      ELSE IF Registered(registry, "planner")
                      THEN log.chosen = "planner" /\ ~res.raised
                      ELSE res.raised /\ res.error = NoAgentsError /\ log.chosen = None
           /\ (res.raised /\ res.error = NoAgentsError) =>
                /\ req.agent_type = None
                /\ routed.agent = None
                /\ ~Registered(registry, "planner")]_vars

\* a chat without explicit type that nothing routes, the planner gone
C20_Witness ==
  /\ chat_pc = "returned"
  /\ chat_request.agent_type = None
  /\ chat_log.routed /\ chat_log.defaulted
  /\ chat_response.raised
  /\ chat_response.error = NoAgentsError

\* ---- timeouts ----

\* the provider call that execution e awaits runs into the timeout: the
\* attempt is received as a timeout, or ends the step execution as one
TimesOut(e) ==
  /\ pc[e] = "exec"
  /\ \/ received'[e] = Append(received[e], "timeout")
     \/ /\ Len(executed'[e]) > Len(executed[e])
        /\ executed'[e][Len(executed[e]) + 1].kinds = Append(received[e], "timeout")

\* the step whose turn it is in execution e
CurrentStep(e) == FindStep(StepsOf(e), step_order[e][position[e]])

StepFailedError(step_id, error) == "Step failed: " \o step_id \o " - " \o error

\* C24: a timeout of a step attempt does not cancel the workflow: with
\* retries left the execution stays mapped and running and the same provider
\* is called again; without, the step fails with the timeout error and its
\* error policy applies (abort on fail, the fallback provider's call on
\* fallback, the next step otherwise)
C24_TimeoutKeepsWorkflow ==
  [][TimesOut("e1") =>
       LET e == "e1"
           step == CurrentStep(e)
       IN  IF frame[e].retries > 0
           THEN /\ pc'[e] = "exec"
                /\ e \in active'
                /\ execution'[e].status = "running"
                /\ calls'[e] = Append(calls[e], calls[e][Len(calls[e])])
                /\ ResultsOf(e)' = ResultsOf(e)
           ELSE /\ executed'[e][Len(executed[e]) + 1].result
                     = FailedResult(frame[e].step, TimeoutError)
                /\ ~response'[e].raised
                /\ IF frame[e].fallback
                   THEN response'[e].status = "failed" =>
                          response'[e].error # StepFailedError(step.id, TimeoutError)
                   ELSE IF step.on_error = "fail"
                   THEN /\ pc'[e] = "returned"
                        /\ response'[e].status = "failed"
                        /\ response'[e].error = StepFailedError(step.id, TimeoutError)
                   ELSE IF /\ step.on_error = "fallback"
                           /\ step.fallback_agent # None
                           /\ Registered(registry, step.fallback_agent)
                   THEN /\ pc'[e] = "exec"
                        /\ e \in active'
                        /\ execution'[e].status = "running"
                        /\ calls'[e] = Append(calls[e], [step |-> step.id,
                                                         fallback |-> TRUE])
                   ELSE /\ HasResult(ResultsOf(e)', step.id)
                        /\ response'[e].status = "failed" =>
                             response'[e].error # StepFailedError(step.id, TimeoutError)]_vars

\* after a timeout the next attempt of the step is pending, the execution
\* mapped and running
C24_Witness ==
  /\ pc["e1"] = "exec"
  /\ received["e1"] # <<>>
  /\ received["e1"][Len(received["e1"])] = "timeout"
  /\ "e1" \in active
  /\ execution["e1"].status = "running"

\* ---- dependencies ----

\* a dependency of the step has no recorded result, or one that is neither
\* completed nor skipped
Blocked(e, step) ==
  \E d \in SeqToSet(step.depends_on) :
    \/ ~HasResult(ResultsOf(e), d)
    \/ ResultOf(ResultsOf(e), d).status \notin {"completed", "skipped"}

\* the steps the loop of execution e has reached, by their place in the order
Reached(e) ==
  IF pc[e] = "idle" THEN {}
  ELSE {i \in 1..Len(step_order[e]) : i <= position[e]}

StepAt(e, i) == FindStep(StepsOf(e), step_order[e][i])

NoCallFor(e, step_id) ==
  NumCalls(e, step_id, FALSE) = 0 /\ NumCalls(e, step_id, TRUE) = 0

DependencyError(step_id) == "Dependencies not satisfied for step: " \o step_id

\* C26: a step reached with an unsatisfied dependency gets no provider call
\* and no recorded result; under fail_fast the workflow aborts there with
\* the dependency error and calls no later step, under any other mode the
\* loop goes on to the next step
C26_UnsatisfiedDependency ==
  LET e == "e1"
  IN  \A i \in Reached(e) :
        Blocked(e, StepAt(e, i)) =>
          /\ NoCallFor(e, step_order[e][i])
          /\ ~HasResult(ResultsOf(e), step_order[e][i])
          /\ IF request[e].workflow.error_handling = "fail_fast"
             THEN /\ pc[e] = "returned"
                  /\ position[e] = i
                  /\ response[e].status = "failed"
                  /\ response[e].error = DependencyError(step_order[e][i])
                  /\ \A j \in (i + 1)..Len(step_order[e]) :
                       NoCallFor(e, step_order[e][j])
             ELSE position[e] > i

\* under continue a step was passed over for its failed dependency, the
\* loop went on to the step after it, and the workflow completed
C26_Witness ==
  LET e == "e1"
  IN  /\ pc[e] = "returned"
      /\ request[e].workflow.error_handling = "continue"
      /\ response[e].status = "completed"
      /\ \E i \in Reached(e) :
           /\ i < Len(step_order[e])
           /\ Blocked(e, StepAt(e, i))
           /\ \E d \in SeqToSet(StepAt(e, i).depends_on) :
                /\ HasResult(ResultsOf(e), d)
                /\ ResultOf(ResultsOf(e), d).status = "failed"

\* the turn of the i-th step of the order is over
TurnOver(e, i) == i \in Reached(e) /\ (i < position[e] \/ pc[e] = "returned")

\* the step's turn ended with a failed recorded result, or without any
EndedIneligible(e, i) ==
  /\ TurnOver(e, i)
  /\ \/ ~HasResult(ResultsOf(e), step_order[e][i])
     \/ ResultOf(ResultsOf(e), step_order[e][i]).status = "failed"

\* the ids of the steps that depend on id, directly or through other steps
Dependents(steps, id) == {t \in IdsOf(steps) : id \in Ancestors(steps, t)}

\* C28: outside fail_fast, after a step has ended failed or was passed over,
\* no step depending on it, directly or through others, has a recorded
\* result or a provider call
C28_IneligibleStays ==
  LET e == "e1"
  IN  request[e].workflow.error_handling # "fail_fast" =>
        \A i \in Reached(e) :
          EndedIneligible(e, i) =>
            \A t \in Dependents(StepsOf(e), step_order[e][i]) :
              ~HasResult(ResultsOf(e), t) /\ NoCallFor(e, t)

\* a completed run in which a step failed and a step depending on it only
\* through another one was reached
C28_Witness ==
  LET e == "e1"
      steps == StepsOf(e)
  IN  /\ pc[e] = "returned"
      /\ response[e].status = "completed"
      /\ request[e].workflow.error_handling # "fail_fast"
      /\ \E i \in Reached(e) :
           /\ HasResult(ResultsOf(e), step_order[e][i])
           /\ ResultOf(ResultsOf(e), step_order[e][i]).status = "failed"
           /\ \E t \in Dependents(steps, step_order[e][i]) :
                step_order[e][i] \notin DependsOn(steps, t)

\* ---- the step-result map ----

\* the keys of the step-result map are ids of steps of the workflow, and
\* every entry stays at its place under its key
KeysKept(e) ==
  /\ \A i \in 1..Len(ResultsOf(e)') : ResultsOf(e)'[i].key \in IdsOf(StepsOf(e)')
  /\ Len(ResultsOf(e)') >= Len(ResultsOf(e))
  /\ \A i \in 1..Len(ResultsOf(e)) : ResultsOf(e)'[i].key = ResultsOf(e)[i].key

\* C29: the keys of the step-result map are ids of workflow steps, no entry
\* is removed, and a recorded entry is never changed
C29_ResultsAppendOnly ==
  [][/\ KeysKept("e1")
     /\ \A i \in 1..Len(ResultsOf("e1")) :
          ResultsOf("e1")'[i].result = ResultsOf("e1")[i].result]_vars

\* C29 amended: the keys of the step-result map are ids of workflow steps
\* and no entry is removed; a recorded entry changes once at most, when the
\* failed result of a step is replaced by the result of its fallback
\* provider
C29_ResultsKeptButFallback ==
  [][/\ KeysKept("e1")
     /\ \A i \in 1..Len(ResultsOf("e1")) :
          LET e == "e1"
              key == ResultsOf(e)[i].key
          IN  ResultsOf(e)'[i].result # ResultsOf(e)[i].result =>
                /\ ResultsOf(e)[i].result.status = "failed"
                /\ ExecutedOf(e, key, TRUE) = {}
                /\ ExecutedOf(e, key, TRUE)' # {}
                /\ ResultsOf(e)'[i].result = LastExecuted(e, key)'.result
                /\ LastExecuted(e, key)'.fallback]_vars

\* the completed result of a fallback provider stands where the failed
\* result of the step stood
C29_Witness ==
  LET e == "e1"
  IN  \E i \in 1..Len(ResultsOf(e)) :
        /\ ExecutedOf(e, ResultsOf(e)[i].key, TRUE) # {}
        /\ ExecutedOf(e, ResultsOf(e)[i].key, FALSE) # {}
        /\ ResultsOf(e)[i].result.status = "completed"
        /\ ResultsOf(e)[i].key \in IdsOf(StepsOf(e))

\* ---- path navigation ----

\* the path leads to a value of the output: a leaf, or a map
PathHits(output, path) == path \in DOMAIN output \/ IsDict(output, path)

\* the string form of the value the path leads to
FoundText(output, path) ==
  IF path \in DOMAIN output THEN Text(output[path]) ELSE DictText

\* C30: against a recorded non-empty output the template
\* steps.ID.output.PATH resolves to the string form of the value at PATH,
\* and to the empty string when PATH misses: a segment is absent, or a value
\* on the way is not a map
C30_PathNavigation ==
  resolve_out.called =>
    IF PathHits(resolve_in.output, resolve_in.path)
    THEN resolve_out.text = FoundText(resolve_in.output, resolve_in.path)
    ELSE resolve_out.text = ""

\* ---- conditions ----

\* an if or unless condition whose expression names a step
RefersToStep(condition) ==
  /\ condition.type \in {"if", "unless"}
  /\ Len(condition.expression) >= 2
  /\ condition.expression[1] = "steps"

\* when the i-th step of the order was reached, step id had a recorded
\* result with status completed: results are recorded in the order of the
\* steps, and the result of a step is final once the loop has left it
CompletedBefore(e, i, id) ==
  /\ \E j \in 1..(i - 1) : step_order[e][j] = id
  /\ HasResult(ResultsOf(e), id)
  /\ ResultOf(ResultsOf(e), id).status = "completed"

\* the step proceeds, a referenced step without recorded result counting
\* as not completed
ProceedsAsStated(e, i) ==
  LET condition == StepAt(e, i).condition
  IN  IF RefersToStep(condition)
      THEN (condition.type = "if") = CompletedBefore(e, i, condition.expression[2])
      ELSE TRUE

RecordedSkipped(e, id) ==
  HasResult(ResultsOf(e), id) /\ ResultOf(ResultsOf(e), id).status = "skipped"

\* C27: a step reached with its dependencies satisfied proceeds under an
\* always condition and under every condition that names no step; under if
\* (unless) steps.<id> it proceeds only if step <id> is (is not) recorded
\* completed, no recorded result counting as not completed; a step that
\* does not proceed is recorded skipped, its provider is not called, and
\* the loop goes on to the next step
C27_ConditionCheck ==
  LET e == "e1"
  IN  \A i \in Reached(e) :
        ~Blocked(e, StepAt(e, i)) =>
          IF ProceedsAsStated(e, i)
          THEN ~RecordedSkipped(e, step_order[e][i])
          ELSE /\ RecordedSkipped(e, step_order[e][i])
               /\ NoCallFor(e, step_order[e][i])
               /\ position[e] > i

\* ---- execute_task ----

\* C21: a synchronous execute_task returns without raising, with status
\* completed exactly if the provider's result has status completed, and
\* failed otherwise: for every other result status, for an exception of the
\* provider (its text as the error), and for a provider type that is not
\* registered, for which no provider is executed
C21_SynchronousTask ==
  \A t \in TaskCalls :
    (task_pc[t] = "returned" /\ ~task_request[t].async_execution) =>
      LET r == task_response[t]
          o == task_log[t].finished
      IN  /\ ~r.raised
          /\ r.status \in {"completed", "failed"}
          /\ task_log[t].background = "none"
          /\ IF ~Registered(registry, task_request[t].agent_type)
             THEN /\ r.status = "failed"
                  /\ task_log[t].awaited = 0
                  /\ o = NoOutcome
             ELSE /\ task_log[t].awaited = 1
                  /\ (r.status = "completed")
                       = (o.kind = "result" /\ o.status = "completed")
                  /\ o.kind = "raise" => r.error = o.error

\* a synchronous call returned failed for a provider result whose status is
\* neither completed nor failed
C21_Witness ==
  \E t \in TaskCalls :
    /\ task_pc[t] = "returned"
    /\ ~task_request[t].async_execution
    /\ task_log[t].finished.kind = "result"
    /\ task_log[t].finished.status \notin {"completed", "failed"}
    /\ task_response[t].status = "failed"

\* the placeholder the task status query replies with
Placeholder(task_id) == [task_id |-> task_id, status |-> "pending", progress |-> 0]

\* C22: a detached execute_task returns status running under a task id no
\* other task has, the provider not yet executed; whatever the detached unit
\* does afterwards, the response stays as returned, nothing is raised, and
\* the task status query replies the same placeholder before and after the
\* unit has ended
C22_DetachedTask ==
  [][/\ \A t \in TaskCalls :
          /\ (task_pc[t] = "idle" /\ task_pc'[t] = "returned"
                /\ task_request'[t].async_execution
                /\ Registered(registry, task_request'[t].agent_type)) =>
               /\ task_response'[t].status = "running"
               /\ ~task_response'[t].raised
               /\ task_log'[t].background = "scheduled"
               /\ task_log'[t].awaited = 0
               /\ \A u \in TaskCalls \ {t} :
                    task_response'[u].task_id # task_response'[t].task_id
          /\ task_pc[t] = "returned" =>
               /\ task_pc'[t] = "returned"
               /\ task_response'[t] = task_response[t]
          /\ ~task_log'[t].escaped
     /\ \A i \in 1..Len(status_seen') :
          status_seen'[i].reply = Placeholder(status_seen'[i].reply.task_id)]_vars

\* the status of a detached task was queried before and after its unit
\* ended in an exception
C22_Witness ==
  \E t \in TaskCalls :
    /\ task_request[t].async_execution
    /\ task_log[t].background = "done"
    /\ task_log[t].finished.kind = "raise"
    /\ task_response[t].status = "running"
    /\ \E i, j \in 1..Len(status_seen) :
         /\ status_seen[i].reply.task_id = task_response[t].task_id
         /\ status_seen[j].reply.task_id = task_response[t].task_id
         /\ ~status_seen[i].ended
         /\ status_seen[j].ended

\* ---- the message queue ----

\* the messages sent so far, those dequeued first
Sent == processed \o message_queue

\* C23: send_message puts exactly one entry at the tail of the queue,
\* whoever the recipient is, and changes nothing else; process_messages
\* takes the messages out in the order they were sent and leaves the queue
\* empty; neither changes the registry or the map of active executions
C23_QueueIsFifo ==
  [][/\ (message_queue' # message_queue \/ processed' # processed) =>
          /\ <<reg_vars, flow_vars, task_vars>>' = <<reg_vars, flow_vars, task_vars>>
          /\ IF Len(message_queue') > Len(message_queue)
             THEN /\ Len(message_queue') = Len(message_queue) + 1
                  /\ SubSeq(message_queue', 1, Len(message_queue)) = message_queue
                  /\ processed' = processed
             ELSE /\ message_queue' = <<>>
                  /\ processed' = processed \o message_queue
     /\ \A i \in 1..Len(Sent') : Sent'[i].serial = i]_vars

\* process_messages has emptied, while an execution was active, a queue of
\* two messages or more, one of them to a provider type that was not
\* registered
C23_Witness ==
  /\ message_queue = <<>>
  /\ Len(processed) >= 2
  /\ active # {}
  /\ \E i \in 1..Len(processed) :
       /\ processed[i].recipient \notin {"all", "orchestrator"}
       /\ ~Registered(registry, processed[i].recipient)
  /\ \E i \in 1..Len(processed) : processed[i].recipient = "all"

\* ---- A/B test analysis ----

\* C25: a request with fewer than 10 samples in the control group or in the
\* treatment group is answered with status 400 and no analysis result; the
\* catch-all handler does not turn that error into a 500
C25_SmallSampleRejected ==
  (ab_out.called /\ (ab_in.control < 10 \/ ab_in.treatment < 10)) =>
    ab_out.status = 400 /\ ~ab_out.result

\* a request with 10 control samples and 9 treatment samples was rejected
C25_Witness ==
  /\ ab_out.called
  /\ ab_in.control = 10
  /\ ab_in.treatment = 9
  /\ ab_out.status = 400

\* ---- prev.KEY ----

\* the place of the last recorded result with status completed, 0 if none
LastCompleted(step_results) ==
  LET completed == {i \in 1..Len(step_results) :
                      step_results[i].result.status = "completed"}
  IN  IF completed = {} THEN 0
      ELSE CHOOSE i \in completed : \A j \in completed : j <= i

\* C31: the template prev.KEY resolves to the KEY field of the output of
\* the most recently recorded completed step, failed and skipped results
\* passed over; to the empty string when no completed step is recorded;
\* and to the empty string, not the field of an earlier completed step,
\* when the most recent completed step lacks KEY
C31_PrevIsLastCompleted ==
  prev_out.called =>
    LET last == LastCompleted(prev_in.step_results)
    IN  IF last = 0 THEN prev_out.text = ""
        ELSE prev_out.text
               = GetKey(prev_in.step_results[last].result.output, prev_in.key)

\* ---- one provider call at a time ----

\* the provider calls of execution e that have ended
RECURSIVE EndedCalls(_)
EndedCalls(log) ==
  IF log = <<>> THEN 0 ELSE Len(Head(log).kinds) + EndedCalls(Tail(log))

\* the provider calls of execution e started and not ended
InFlight(e) == Len(calls[e]) - EndedCalls(executed[e]) - Len(received[e])

\* the place of a step id in the order of execution e
PlaceOf(e, step_id) ==
  CHOOSE i \in 1..Len(step_order[e]) : step_order[e][i] = step_id

\* C32: in one workflow run at most one provider call is in flight, and
\* only while the run is suspended; calls are started in the order of the
\* steps, the fallback's after the step's own, and when a call is started
\* every earlier step of the order that was called has its result recorded,
\* also when the two steps do not depend on each other
C32_OneCallInFlight ==
  LET e == "e1"
  IN  /\ InFlight(e) = IF pc[e] = "exec" THEN 1 ELSE 0
      /\ \A k \in 1..Len(calls[e]) :
           /\ \A l \in 1..(k - 1) :
                /\ PlaceOf(e, calls[e][l].step) <= PlaceOf(e, calls[e][k].step)
                /\ calls[e][l].step = calls[e][k].step =>
                     (calls[e][l].fallback => calls[e][k].fallback)
           /\ \A j \in 1..(PlaceOf(e, calls[e][k].step) - 1) :
                \/ NoCallFor(e, step_order[e][j])
                \/ HasResult(ResultsOf(e), step_order[e][j])

\* the call of a step is pending after the result of an earlier step it
\* does not depend on has been recorded
C32_Witness ==
  LET e == "e1"
  IN  /\ pc[e] = "exec"
      /\ position[e] > 1
      /\ StepAt(e, position[e]).depends_on = <<>>
      /\ HasResult(ResultsOf(e), step_order[e][position[e] - 1])
      /\ NumCalls(e, step_order[e][position[e] - 1], FALSE) > 0
      /\ InFlight(e) = 1

\* ---- executions in flight ----

\* C33: whenever a provider call is pending, and at every other moment, the
\* map of active executions holds exactly the executions of the orchestrate
\* calls started and not returned, each with status running:
\* get_workflow_status returns no execution with status completed or failed
C33_ActiveAreRunning ==
  /\ active = {e \in ExecIds : pc[e] = "exec"}
  /\ \A e \in ExecIds :
       IF e \in active
       THEN GetWorkflowStatus(e).status = "running"
       ELSE GetWorkflowStatus(e) = NoExecution

\* one call is suspended while another has returned failed
C33_Witness ==
  \E e, f \in ExecIds :
    /\ pc[e] = "exec"
    /\ pc[f] = "returned"
    /\ response[f].status = "failed"
    /\ execution[f].status = "failed"
    /\ active = {e}

\* the input the pending call of execution e was given is the step's input
\* resolved against the results of e
ResolvedFromOwn(e) ==
  (pc[e] = "exec" /\ ~frame[e].fallback) =>
    frame[e].resolved
      = ResolveReferences(frame[e].step.input, execution[e], request[e].input)

\* C34: of two workflows in flight in any interleaving, each has its own
\* step-result map, which holds the results of its own steps only and is
\* the one its templates are resolved against; the return of one takes its
\* own execution out of the map of active executions and leaves the other
\* in it
C34_ExecutionsIsolated ==
  [][\A e \in ExecIds :
       /\ ResultsMatchLog(e, ResultsOf(e))'
       /\ ResolvedFromOwn(e)'
       /\ (pc[e] = "exec" /\ pc'[e] = "returned") => active' = active \ {e}
       /\ <<pc[e], calls[e], received[e], executed[e]>>'
             = <<pc[e], calls[e], received[e], executed[e]>> =>
            /\ execution'[e] = execution[e]
            /\ (e \in active') = (e \in active)]_vars

\* both executions have recorded a completed result of step a, with
\* different outputs; one has returned, the call of step c of the other is
\* pending
C34_Witness ==
  \E e, f \in ExecIds :
    /\ pc[e] = "exec"
    /\ frame[e].step.id = "c"
    /\ pc[f] = "returned"
    /\ HasResult(ResultsOf(e), "a")
    /\ HasResult(ResultsOf(f), "a")
    /\ ResultOf(ResultsOf(e), "a").output = OutX
    /\ ResultOf(ResultsOf(f), "a").output = EmptyMap
    /\ ResultOf(ResultsOf(f), "a").status = "completed"
    /\ active = {e}

\* ---- the status of a run ----

\* the mode is not fail_fast and no step has on_error = fail
Lenient(e) ==
  /\ request[e].workflow.error_handling # "fail_fast"
  /\ \A i \in 1..Len(StepsOf(e)) : StepsOf(e)[i].on_error # "fail"

\* C35: under a mode other than fail_fast and without a step of
\* on_error = fail, orchestrate returns completed whatever the steps did
C35_LenientCompletes ==
  LET e == "e1"
  IN  (pc[e] = "returned" /\ Lenient(e)) => response[e].status = "completed"

\* C35 amended: under a mode other than fail_fast and without a step of
\* on_error = fail, a workflow that the topological sort orders returns
\* completed whatever its steps did, with a result for at most every step;
\* one that the sort rejects returns failed with the circular-dependency
\* error
C35_LenientCompletesIfSorted ==
  LET e == "e1"
  IN  (pc[e] = "returned" /\ Lenient(e)) =>
        IF TopologicalSort(StepsOf(e)).ok
        THEN /\ response[e].status = "completed"
             /\ Len(response[e].results) <= Len(StepsOf(e))
        ELSE /\ response[e].status = "failed"
             /\ response[e].error = CircularError

\* a run returned completed although the fallback of a step failed and a
\* step depending on it was passed over: fewer results than steps
C35_Witness ==
  LET e == "e1"
  IN  /\ pc[e] = "returned"
      /\ Lenient(e)
      /\ response[e].status = "completed"
      /\ Len(response[e].results) < Len(StepsOf(e))
      /\ \E j \in 1..Len(executed[e]) :
           executed[e][j].fallback /\ executed[e][j].result.status = "failed"

\* ---- workflows the sort rejects without a cycle ----

\* a depends_on names an id of no step or lists a dependency twice, or two
\* steps have one id
Malformed(steps) ==
  ~DepsExist(steps) \/ ~NoRepeatedDeps(steps) \/ ~UniqueIds(steps)

\* C39: a workflow in which a depends_on names an id that is no step's, or
\* lists a dependency twice, or in which two steps share an id, is rejected
\* like a cyclic one, cycle or not: orchestrate returns failed with the
\* circular-dependency error, no step results and no provider call
C39_MalformedRejected ==
  LET e == "e1"
  IN  (pc[e] # "idle" /\ Malformed(StepsOf(e))) =>
        /\ pc[e] = "returned"
        /\ response[e].status = "failed"
        /\ response[e].error = CircularError
        /\ response[e].results = <<>>
        /\ calls[e] = <<>>
        /\ executed[e] = <<>>

\* a workflow without a cycle whose two steps share an id was rejected
C39_Witness ==
  LET e == "e1"
  IN  /\ pc[e] = "returned"
      /\ ~Cyclic(StepsOf(e))
      /\ ~UniqueIds(StepsOf(e))
      /\ DepsExist(StepsOf(e))
      /\ response[e].error = CircularError

\* a workflow without a cycle that depends on an id of no step, or that
\* lists a dependency twice, was rejected
C39_OtherCases ==
  LET e == "e1"
  IN  /\ pc[e] = "returned"
      /\ ~Cyclic(StepsOf(e))
      /\ UniqueIds(StepsOf(e))
      /\ ~DepsExist(StepsOf(e)) \/ ~NoRepeatedDeps(StepsOf(e))
      /\ response[e].error = CircularError

\* ---- the modes ----

\* the second run was aborted at a dependency check that the first run
\* went past
AbortedAtDependency ==
  /\ pc["e2"] = "returned"
  /\ response["e2"].status = "failed"
  /\ position["e2"] <= Len(step_order["e2"])
  /\ response["e2"].error = DependencyError(step_order["e2"][position["e2"]])
  /\ Blocked("e2", StepAt("e2", position["e2"]))
  /\ step_order["e2"] = step_order["e1"]
  /\ IsPrefix(calls["e2"], calls["e1"])
  /\ IsPrefix(ResultsOf("e2"), ResultsOf("e1"))

\* C36: runs of the same steps with the same provider behaviour under
\* continue, retry and fallback make the same provider calls in the same
\* order and return the same status and step results; a run under
\* fail_fast differs from them only by aborting at a dependency check
C36_ModesAgree ==
  IF request["e2"].workflow.error_handling = "fail_fast"
  THEN StateOf("e1") = StateOf("e2") \/ AbortedAtDependency
  ELSE StateOf("e1") = StateOf("e2")

\* two runs under different modes other than fail_fast have returned after
\* a step failed and the step depending on it was passed over
C36_Witness ==
  /\ pc["e1"] = "returned" /\ pc["e2"] = "returned"
  /\ request["e1"].workflow.error_handling # request["e2"].workflow.error_handling
  /\ request["e2"].workflow.error_handling # "fail_fast"
  /\ response["e1"].status = "completed"
  /\ \E i \in Reached("e1") : Blocked("e1", StepAt("e1", i))
  /\ calls["e1"] # <<>>

\* ---- an exception of the provider ----

\* the provider call execution e awaits raises
Raises(e) ==
  /\ pc[e] = "exec"
  /\ \/ received'[e] = Append(received[e], "raise")
     \/ /\ Len(executed'[e]) > Len(executed[e])
        /\ executed'[e][Len(executed[e]) + 1].kinds = Append(received[e], "raise")

\* C37: when the provider raises during a step attempt, the step ends
\* failed at once with the text of the exception as its error, whatever
\* retries remain, and nothing is raised out of orchestrate; the step's
\* error policy alone decides what follows: the abort on fail, the call of
\* the fallback provider on fallback, the next step otherwise
C37_RaiseEndsStep ==
  [][Raises("e1") =>
       LET e == "e1"
           step == CurrentStep(e)
           error == RaiseOutcome.error
           ended == executed'[e][Len(executed[e]) + 1]
       IN  /\ Len(executed'[e]) > Len(executed[e])
           /\ ended.result = FailedResult(frame[e].step, error)
           /\ ended.kinds = Append(received[e], "raise")
           /\ ended.fallback = frame[e].fallback
           /\ ~response'[e].raised
           /\ Len(calls'[e]) > Len(calls[e]) =>
                calls'[e][Len(calls[e]) + 1] # calls[e][Len(calls[e])]
           /\ IF frame[e].fallback
              THEN response'[e].status = "failed" =>
                     response'[e].error # StepFailedError(step.id, error)
              ELSE IF step.on_error = "fail"
              THEN /\ pc'[e] = "returned"
                   /\ response'[e].status = "failed"
                   /\ response'[e].error = StepFailedError(step.id, error)
              ELSE IF /\ step.on_error = "fallback"
                      /\ step.fallback_agent # None
                      /\ Registered(registry, step.fallback_agent)
              THEN /\ pc'[e] = "exec"
                   /\ calls'[e] = Append(calls[e], [step |-> step.id,
                                                    fallback |-> TRUE])
              ELSE /\ HasResult(ResultsOf(e)', step.id)
                   /\ ResultOf(ResultsOf(e)', step.id).status = "failed"
                   /\ response'[e].status = "failed" =>
                        response'[e].error # StepFailedError(step.id, error)]_vars

\* the provider raised in the first attempt of a step with a retry left
\* and on_error = skip; the step is recorded failed after that one attempt
\* and the run completed
C37_Witness ==
  LET e == "e1"
  IN  /\ pc[e] = "returned"
      /\ response[e].status = "completed"
      /\ \E j \in 1..Len(executed[e]) :
           /\ executed[e][j].kinds = <<"raise">>
           /\ ~executed[e][j].fallback
           /\ FindStep(StepsOf(e), executed[e][j].step).retries > 0
           /\ FindStep(StepsOf(e), executed[e][j].step).on_error = "skip"
           /\ ResultOf(ResultsOf(e), executed[e][j].step).status = "failed"
           /\ ResultOf(ResultsOf(e), executed[e][j].step).error = RaiseOutcome.error

\* ---- termination ----

\* the provider calls the steps allow: retries + 1 for each step, and one
\* more for each step that has a fallback provider
RECURSIVE CallsAllowed(_)
CallsAllowed(steps) ==
  IF steps = <<>> THEN 0
  ELSE Head(steps).retries + 1
         + (IF Head(steps).fallback_agent # None THEN 1 ELSE 0)
         + CallsAllowed(Tail(steps))

\* every step id has had at most one turn, and the calls are within what
\* the steps allow
Bounded(e) ==
  /\ Len(calls[e]) <= CallsAllowed(StepsOf(e))
  /\ \A id \in IdsOf(StepsOf(e)) :
       /\ Cardinality(ExecutedOf(e, id, FALSE)) <= 1
       /\ Cardinality(ExecutedOf(e, id, TRUE)) <= 1
       /\ NumCalls(e, id, FALSE) <= FindStep(StepsOf(e), id).retries + 1
       /\ NumCalls(e, id, TRUE) <= 1
  /\ pc[e] # "idle" => position[e] <= Len(step_order[e]) + 1
  /\ pc[e] = "returned" => e \notin active

\* C38: provided every provider call ends, every orchestrate call returns;
\* each step id has one turn, the provider calls number at most the sum of
\* retries + 1 over the steps plus one for each step with a fallback
\* provider, and on return the execution is out of the map of active
\* executions
C38_OrchestrateReturns ==
  /\ []Bounded("e1")
  /\ (pc["e1"] = "exec") ~> (pc["e1"] = "returned")

\* a run returned after as many provider calls as its steps allow, two or
\* more of them retries, one the fallback's
C38_Witness ==
  LET e == "e1"
  IN  /\ pc[e] = "returned"
      /\ e \notin active
      /\ Len(calls[e]) = CallsAllowed(StepsOf(e))
      /\ Len(calls[e]) >= 3
      /\ \E i \in 1..Len(calls[e]) : calls[e][i].fallback

\* ---- chat: an explicit provider type and the handoff check ----

\* a chat call starts with a provider type named in the request, registered
ExplicitChatCalled ==
  /\ ChatCalled
  /\ chat_request'.agent_type # None
  /\ Registered(registry, chat_request'.agent_type)

\* C40: the handoff check before executing applies to the provider type the
\* request names: its should_handoff is asked, without routing; when it
\* names a registered target the target executes, otherwise the named
\* provider does; and the response carries the type of the provider that
\* executed
C40_ExplicitHandsOff ==
  [][/\ ExplicitChatCalled =>
          LET explicit == chat_request'.agent_type
              target == ShouldHandoff(explicit, chat_request'.message)
          IN  /\ chat_log'.chosen = explicit
              /\ ~chat_log'.routed
              /\ chat_log'.asked = <<explicit>>
              /\ chat_pc' = "exec"
              /\ chat_agent' = IF target # None /\ Registered(registry, target)
                               THEN target ELSE explicit
              /\ chat_log'.executes = <<chat_agent'>>
     /\ (chat_pc = "exec" /\ chat_pc' = "returned") =>
          /\ ~chat_response'.raised
          /\ chat_response'.agent_type = chat_agent
          /\ chat_log'.executes = <<chat_agent>>]_vars

\* a chat that named the planner returned with the response of the task
\* provider, the planner's handoff target
C40_Witness ==
  /\ chat_pc = "returned"
  /\ chat_request.agent_type = "planner"
  /\ chat_log.chosen = "planner"
  /\ chat_log.asked = <<"planner">>
  /\ ShouldHandoff("planner", chat_request.message) = "task"
  /\ chat_agent = "task"
  /\ chat_log.executes = <<"task">>
  /\ ~chat_response.raised
  /\ chat_response.agent_type = "task"
=============================================================================
